---- MODULE Spec2Model ----
(***************************************************************************)
(* Longitudinal transfer matrices of LightWin (transfer_matrices_c.pyx and *)
(* its older version): field sampler, drift, RK4 / leapfrog field-map      *)
(* drivers and the thin-lens matrix builder.                               *)
(*                                                                         *)
(* Numbers.  The code computes with IEEE doubles.  Here a number is a      *)
(* binary floating-point number <<m, e>> of value m * 2^e whose            *)
(* significand m has at most Prec bits (m odd, or <<0, 0>> for zero);      *)
(* every operation rounds its exact result to the nearest such number,     *)
(* ties to even, as IEEE arithmetic does.  <<0, 1>> is NaN and <<0, k>>    *)
(* with k > 1 is a raised Python exception (it aborts the call, so it      *)
(* absorbs every operation it flows through).  Infinities and the exponent *)
(* range are not modelled.                                                 *)
(***************************************************************************)
EXTENDS Integers, Sequences, FiniteSets, TLC

\* -------------------------------------------------------------------------
\* Bounds of the model
\* -------------------------------------------------------------------------
\* bits of the significand
Prec == 11
\* largest step count of a call
MaxSteps == 2
\* |tan| next to a pole
TanPole == 1000

\* -------------------------------------------------------------------------
\* Floating-point numbers
\* -------------------------------------------------------------------------
Abs(n) == IF n < 0 THEN -n ELSE n
Sgn(n) == IF n < 0 THEN -1 ELSE 1
Min(a, b) == IF a < b THEN a ELSE b

\* the number of binary digits of n in 0 .. 2^31 - 1
BitLen(n) ==
    CHOOSE k \in 0..31 : /\ (k = 31 \/ n \div (2 ^ k) = 0)
                         /\ (k = 0 \/ n \div (2 ^ (k - 1)) # 0)

NaN == <<0, 1>>
ZeroDivisionError == <<0, 2>>
IndexError == <<0, 3>>
ValueError == <<0, 4>>
NameError == <<0, 5>>
IOError == <<0, 6>>

\* the values that are not numbers
NotANumber == {NaN, ZeroDivisionError, IndexError, ValueError, NameError, IOError}

IsRaise(x) == x \in NotANumber \ {NaN}
IsNaN(x) == x = NaN
IsNum(x) == x \notin NotANumber

Zero == <<0, 0>>
One == <<1, 0>>
Two == <<1, 1>>
Half == <<1, -1>>

\* m * 2^e with the factors 2 of m moved to the exponent
Norm(m, e) ==
    IF m = 0 THEN Zero
    ELSE LET k == CHOOSE k \in 0..30 : /\ m % (2 ^ k) = 0
                                        /\ (k = 30 \/ m % (2 ^ (k + 1)) # 0)
         IN  << m \div (2 ^ k), e + k >>

\* the value of an expression in a local variable: f is [v \in {e} |-> expression]
Local(f) == f[CHOOSE x \in DOMAIN f : TRUE]

\* the float nearest to m * 2^e (to a little more than it when sticky:
\* the digits of the exact value that were cut off), ties to even
RoundBits(m, e, sticky) ==
    Local([s \in {BitLen(Abs(m)) - Prec} |->
        IF s <= 0 THEN Norm(m, e)
        ELSE LET q == Abs(m) \div (2 ^ s)
                 low == Abs(m) % (2 ^ s)
                 half == 2 ^ (s - 1)
             IN  Norm(Sgn(m) * (IF low > half \/ (low = half /\ (sticky \/ q % 2 = 1))
                                THEN q + 1 ELSE q),
                      e + s)])

\* the double of an integer literal, and of the decimal literal n/d
FromInt(n) == RoundBits(n, 0, FALSE)

\* what a binary operation gives when an operand is not a number
Special(x, y) ==
    IF IsRaise(x) THEN x ELSE IF IsRaise(y) THEN y ELSE NaN

FAdd(x, y) ==
    IF x \in NotANumber \/ y \in NotANumber THEN Special(x, y)
    ELSE IF x = Zero THEN y
    ELSE IF y = Zero THEN x
    ELSE LET tx == x[2] + BitLen(Abs(x[1]))
             ty == y[2] + BitLen(Abs(y[1]))
             e == Min(x[2], y[2])
         IN  IF tx - ty >= Prec + 3 THEN x
             ELSE IF ty - tx >= Prec + 3 THEN y
             ELSE RoundBits(x[1] * 2 ^ (x[2] - e) + y[1] * 2 ^ (y[2] - e), e, FALSE)

FNeg(x) == IF x \in NotANumber THEN x ELSE <<-x[1], x[2]>>

FSub(x, y) == FAdd(x, FNeg(y))

FMul(x, y) ==
    IF x \in NotANumber \/ y \in NotANumber THEN Special(x, y)
    ELSE RoundBits(x[1] * y[1], x[2] + y[2], FALSE)

\* x / y of two doubles with Cython's default cdivision=False, and of two
\* Python floats: a zero divisor raises ZeroDivisionError
FDiv(x, y) ==
    IF x \in NotANumber \/ y \in NotANumber THEN Special(x, y)
    ELSE IF y = Zero THEN ZeroDivisionError
    ELSE IF x = Zero THEN Zero
    ELSE LET a == Abs(x[1])
             b == Abs(y[1])
             k == Prec + 2 + BitLen(b) - BitLen(a)
             n == a * 2 ^ k
         IN  RoundBits(Sgn(x[1]) * Sgn(y[1]) * (n \div b), x[2] - y[2] - k, n % b # 0)

Fl(n, d) == FDiv(FromInt(n), FromInt(d))

\* comparisons of doubles: every comparison with NaN is false
FLt(x, y) == IsNum(x) /\ IsNum(y) /\ FSub(x, y)[1] < 0
FGt(x, y) == FLt(y, x)
FLe(x, y) == IsNum(x) /\ IsNum(y) /\ FSub(x, y)[1] <= 0

\* x ** -2
PowMin2(x) == FDiv(One, FMul(x, x))

\* libc floor, as an integer
Floor(x) ==
    IF x[2] >= 0 THEN x[1] * 2 ^ x[2]
    ELSE IF -x[2] > 30 THEN (IF x[1] < 0 THEN -1 ELSE 0)
    ELSE x[1] \div (2 ^ (-x[2]))

\* the largest r with r * r <= y, for y below 2^(2 * Prec + 4): its
\* leading digits h, then the rest
ISqrt(y) ==
    LET b == 2 ^ ((Prec + 3) \div 2)
        h == CHOOSE h \in 0..b : (h * b) * (h * b) <= y /\ y < ((h + 1) * b) * ((h + 1) * b)
        l == CHOOSE l \in 0..(b - 1) :
                 LET r == h * b + l IN r * r <= y /\ y < (r + 1) * (r + 1)
    IN  h * b + l

\* libm sqrt: correctly rounded, NaN for a negative argument
Sqrt(x) ==
    IF x \in NotANumber THEN x
    ELSE IF x[1] < 0 THEN NaN
    ELSE IF x = Zero THEN Zero
    ELSE LET k0 == 2 * Prec + 2 - BitLen(x[1])
             k == IF (x[2] - k0) % 2 = 0 THEN k0 ELSE k0 + 1
         IN  Local([r \in {ISqrt(x[1] * 2 ^ k)} |->
                 RoundBits(r, (x[2] - k) \div 2, r * r # x[1] * 2 ^ k)])

\* pi as a double
Pi == Fl(355, 113)

\* x brought back to [0, 2 pi)
Reduce(x) ==
    Local([two_pi \in {FMul(Two, Pi)} |->
        FSub(x, FMul(FromInt(Floor(FDiv(x, two_pi))), two_pi))])

\* libm cos, as the piecewise-linear wave through its extrema and zeros:
\* 1 at 0, 0 at pi/2, -1 at pi, 0 at 3 pi/2
Cos(x) ==
    IF x \in NotANumber THEN x
    ELSE Local([t \in {Reduce(x)} |->
         Local([q \in {FDiv(FMul(Two, t), Pi)} |->
             IF FLe(t, Pi) THEN FSub(One, q) ELSE FSub(q, FromInt(3))])])

\* libm sin
Sin(x) == Cos(FSub(x, FMul(Half, Pi)))

\* libm tan: never raises, huge next to a pole
Tan(x) ==
    IF x \in NotANumber THEN x
    ELSE Local([c \in {Cos(x)} |->
         Local([s \in {Sin(x)} |->
             IF c = Zero
             THEN (IF FLt(s, Zero) THEN FromInt(-TanPole) ELSE FromInt(TanPole))
             ELSE FDiv(s, c)])])

\* -------------------------------------------------------------------------
\* 2x2 matrices <<<<a, b>>, <<c, d>>>> and complex numbers <<re, im>>
\* -------------------------------------------------------------------------
\* a @ b
MatMul(a, b) ==
    [r \in 1..2 |-> [col \in 1..2 |->
        FAdd(FMul(a[r][1], b[1][col]), FMul(a[r][2], b[2][col]))]]

Det(m) == FSub(FMul(m[1][1], m[2][2]), FMul(m[1][2], m[2][1]))

MatRaises(m) == \E r \in 1..2 : \E col \in 1..2 : IsRaise(m[r][col])
MatRaise(m) ==
    LET e == CHOOSE e \in {m[1][1], m[1][2], m[2][1], m[2][2]} : IsRaise(e) IN e

\* -------------------------------------------------------------------------
\* Program constants (module level cdef's)
\* -------------------------------------------------------------------------
c_cdef == FromInt(299792458)
E_rest_MeV_cdef == Fl(93827203, 100000)
inv_E_rest_MeV_cdef == Fl(1065789, 1000000000)
OMEGA_0_BUNCH_cdef == FromInt(1106468933)
q_adim_cdef == One
\* GAMMA_INIT, for the energy 16.6 MeV at the entrance of the linac
GAMMA_cdef == FAdd(One, FDiv(Fl(166, 10), E_rest_MeV_cdef))

\* -------------------------------------------------------------------------
\* Field-map files and init_arrays
\* -------------------------------------------------------------------------
\* a field-map file: the two numbers of its first line, its second line
\* (skipped) and its sample lines
File1 == [n |-> 2, length |-> One, samples |-> <<FromInt(1), FromInt(2), FromInt(-1)>>]
File2 == [n |-> 1, length |-> Two, samples |-> <<FromInt(2), FromInt(4)>>]

FilepathLists == {<<File1>>, <<File1, File2>>}

\* a file whose first line announces three samples and that holds one
File3 == [n |-> 2, length |-> One, samples |-> <<FromInt(1)>>]

MalformedFilepathLists == {<<File3>>, <<File1, File3>>}

\* what np.empty leaves in an entry that no sample line overwrites
Uninitialised == {Zero, FromInt(7)}

\* one pass of the "for filepath in l_filepaths" loop, for a file with at
\* most n_points sample lines: e_z is allocated with n_points entries and
\* sample line k overwrites entry k
LoadFile(file, unset) ==
    LET n_points == file.n + 1
        inv_dz == FDiv(FromInt(n_points - 1), file.length)
    IN  [e_z |-> [k \in 1..n_points |->
                     IF k <= Len(file.samples) THEN file.samples[k] ELSE unset],
         n_points |-> n_points, inv_dz |-> inv_dz]

\* what a read of the memoryview e_z at a 0-based index gives: with bounds
\* checking an IndexError, without it whatever lies behind the buffer
OobOutcomes == {IndexError, FromInt(7)}

ReadEz(e_z, idx, oob) ==
    IF 0 <= idx /\ idx < Len(e_z) THEN e_z[idx + 1] ELSE oob

\* -------------------------------------------------------------------------
\* Helpers
\* -------------------------------------------------------------------------
\* interp without the test z < 0.
interp_no_lower_test(z, e_z, inv_dz_e, n_points_e, oob) ==
    Local([z_max \in {FDiv(FromInt(n_points_e - 1), inv_dz_e)} |->
        IF IsRaise(z_max) THEN z_max
        ELSE IF FGt(z, z_max) THEN Zero
        ELSE Local([i_ \in {Floor(FMul(z, inv_dz_e))} |->
             IF i_ < n_points_e - 1
             THEN Local([delta_e_z \in {FSub(ReadEz(e_z, i_ + 1, oob), ReadEz(e_z, i_, oob))} |->
                  LET slope == FMul(delta_e_z, inv_dz_e)
                      offset == FSub(ReadEz(e_z, i_, oob), FMul(FromInt(i_), delta_e_z))
                  IN  FAdd(FMul(slope, z), offset)])
             ELSE ReadEz(e_z, n_points_e, oob)])])

interp(z, e_z, inv_dz_e, n_points_e, oob) ==
    Local([z_max \in {FDiv(FromInt(n_points_e - 1), inv_dz_e)} |->
        IF IsRaise(z_max) THEN z_max
        ELSE IF FLt(z, Zero) \/ FGt(z, z_max) THEN Zero
        ELSE Local([i_ \in {Floor(FMul(z, inv_dz_e))} |->
             IF i_ < n_points_e - 1
             THEN Local([delta_e_z \in {FSub(ReadEz(e_z, i_ + 1, oob), ReadEz(e_z, i_, oob))} |->
                  LET slope == FMul(delta_e_z, inv_dz_e)
                      offset == FSub(ReadEz(e_z, i_, oob), FMul(FromInt(i_), delta_e_z))
                  IN  FAdd(FMul(slope, z), offset)])
             ELSE ReadEz(e_z, n_points_e, oob)])])

e_func(z, e_z, inv_dz_e, n_points_e, phi, phi_0, oob) ==
    FMul(interp(z, e_z, inv_dz_e, n_points_e, oob), Cos(FAdd(phi, phi_0)))

\* -------------------------------------------------------------------------
\* Motion integration functions
\* -------------------------------------------------------------------------
\* Variation of u = <<gamma, phi>> during a spatial step
du(z_rel, u, k_k, e_z, inv_dz_e, n_points_e, phi_0_rel, delta_phi_norm, oob) ==
    LET beta == Sqrt(FSub(One, PowMin2(u[1])))
    IN  << FMul(k_k, e_func(z_rel, e_z, inv_dz_e, n_points_e, u[2], phi_0_rel, oob)),
           FDiv(delta_phi_norm, beta) >>

\* rk4 with the two conventions mixed: the k_i are increments, the
\* intermediate states are built as if they were derivatives
rk4_mixed(z, u, dz_s, k_k, e_z, inv_dz_e, n_points_e, phi_0_rel, delta_phi_norm, oob) ==
    Local([half_dz_s \in {FMul(Half, dz_s)} |->
    Local([k_1 \in {du(z, u, k_k, e_z, inv_dz_e, n_points_e, phi_0_rel, delta_phi_norm, oob)} |->
    Local([k_2 \in {du(FAdd(z, half_dz_s),
            << FAdd(u[1], FMul(half_dz_s, k_1[1])), FAdd(u[2], FMul(half_dz_s, k_1[2])) >>,
            k_k, e_z, inv_dz_e, n_points_e, phi_0_rel, delta_phi_norm, oob)} |->
    Local([k_3 \in {du(FAdd(z, half_dz_s),
            << FAdd(u[1], FMul(half_dz_s, k_2[1])), FAdd(u[2], FMul(half_dz_s, k_2[2])) >>,
            k_k, e_z, inv_dz_e, n_points_e, phi_0_rel, delta_phi_norm, oob)} |->
    Local([k_4 \in {du(FAdd(z, dz_s),
            << FAdd(u[1], FMul(dz_s, k_3[1])), FAdd(u[2], FMul(dz_s, k_3[2])) >>,
            k_k, e_z, inv_dz_e, n_points_e, phi_0_rel, delta_phi_norm, oob)} |->
        [j \in 1..2 |->
            FDiv(FAdd(FAdd(FAdd(k_1[j], FMul(Two, k_2[j])), FMul(Two, k_3[j])), k_4[j]),
                 FromInt(6))]])])])])])

\* the k_i are proportional to delta_u instead of du_dz
rk4(z, u, dz_s, k_k, e_z, inv_dz_e, n_points_e, phi_0_rel, delta_phi_norm, oob) ==
    Local([half_dz_s \in {FMul(Half, dz_s)} |->
    Local([k_1 \in {du(z, u, k_k, e_z, inv_dz_e, n_points_e, phi_0_rel, delta_phi_norm, oob)} |->
    Local([k_2 \in {du(FAdd(z, half_dz_s),
            << FAdd(u[1], FMul(Half, k_1[1])), FAdd(u[2], FMul(Half, k_1[2])) >>,
            k_k, e_z, inv_dz_e, n_points_e, phi_0_rel, delta_phi_norm, oob)} |->
    Local([k_3 \in {du(FAdd(z, half_dz_s),
            << FAdd(u[1], FMul(Half, k_2[1])), FAdd(u[2], FMul(Half, k_2[2])) >>,
            k_k, e_z, inv_dz_e, n_points_e, phi_0_rel, delta_phi_norm, oob)} |->
    Local([k_4 \in {du(FAdd(z, dz_s),
            << FAdd(u[1], k_3[1]), FAdd(u[2], k_3[2]) >>,
            k_k, e_z, inv_dz_e, n_points_e, phi_0_rel, delta_phi_norm, oob)} |->
        [j \in 1..2 |->
            FDiv(FAdd(FAdd(FAdd(k_1[j], FMul(Two, k_2[j])), FMul(Two, k_3[j])), k_4[j]),
                 FromInt(6))]])])])])])

\* -------------------------------------------------------------------------
\* Transfer matrices
\* -------------------------------------------------------------------------
\* what a call gives back: nothing yet, an exception, or the tuple
\* (r_zz_array, gamma_phi_array, itg_field) with itg_field = <<>> for None
NoResult == [status |-> "none", exc |-> Zero, r_zz |-> <<>>, gamma_phi |-> <<>>,
             itg_field |-> <<>>, out |-> Zero]
Raised(e) == [status |-> "error", exc |-> e, r_zz |-> <<>>, gamma_phi |-> <<>>,
              itg_field |-> <<>>, out |-> Zero]
Returned(r, g, f) == [status |-> "ok", exc |-> Zero, r_zz |-> r, gamma_phi |-> g,
                      itg_field |-> f, out |-> Zero]
\* what a helper that returns one number gives back
ReturnedOut(v) == IF IsRaise(v) THEN Raised(v)
                  ELSE [status |-> "ok", exc |-> Zero, r_zz |-> <<>>, gamma_phi |-> <<>>,
                        itg_field |-> <<>>, out |-> v]

\* z_drift with gamma_in**-2 written into the lower right entry as well
z_drift_lower_right(delta_s, gamma_in, n_steps) ==
    Local([gamma_in_min2 \in {PowMin2(gamma_in)} |->
    Local([beta_in \in {Sqrt(FSub(One, gamma_in_min2))} |->
    Local([delta_phi \in {FDiv(FMul(OMEGA_0_BUNCH_cdef, delta_s), FMul(beta_in, c_cdef))} |->
    Local([m \in {<< << One, FMul(delta_s, gamma_in_min2) >>, << Zero, gamma_in_min2 >> >>} |->
        IF IsRaise(delta_phi) THEN Raised(delta_phi)
        ELSE IF n_steps < 0 THEN Raised(ValueError)
        ELSE Returned([k \in 1..n_steps |-> m],
                      [k \in 1..n_steps |-> << gamma_in, FMul(FromInt(k), delta_phi) >>],
                      <<>>)])])])])

\* z_drift with the matrix of sub-step i spanning the length up to its end
z_drift_cumulated(delta_s, gamma_in, n_steps) ==
    Local([gamma_in_min2 \in {PowMin2(gamma_in)} |->
    Local([beta_in \in {Sqrt(FSub(One, gamma_in_min2))} |->
    Local([delta_phi \in {FDiv(FMul(OMEGA_0_BUNCH_cdef, delta_s), FMul(beta_in, c_cdef))} |->
        IF IsRaise(delta_phi) THEN Raised(delta_phi)
        ELSE IF n_steps < 0 THEN Raised(ValueError)
        ELSE Returned([k \in 1..n_steps |->
                          << << One, FMul(FMul(FromInt(k), delta_s), gamma_in_min2) >>,
                             << Zero, One >> >>],
                      [k \in 1..n_steps |-> << gamma_in, FMul(FromInt(k), delta_phi) >>],
                      <<>>)])])])

\* z_drift with beta_in**2 in the place of gamma_in**-2
z_drift_beta2(delta_s, gamma_in, n_steps) ==
    Local([gamma_in_min2 \in {PowMin2(gamma_in)} |->
    Local([beta_in \in {Sqrt(FSub(One, gamma_in_min2))} |->
    Local([delta_phi \in {FDiv(FMul(OMEGA_0_BUNCH_cdef, delta_s), FMul(beta_in, c_cdef))} |->
    Local([m \in {<< << One, FMul(delta_s, FSub(One, gamma_in_min2)) >>, << Zero, One >> >>} |->
        IF IsRaise(delta_phi) THEN Raised(delta_phi)
        ELSE IF n_steps < 0 THEN Raised(ValueError)
        ELSE Returned([k \in 1..n_steps |-> m],
                      [k \in 1..n_steps |-> << gamma_in, FMul(FromInt(k), delta_phi) >>],
                      <<>>)])])])])

\* z_drift with the phase of sub-step i counted from the start of the sub-step
z_drift_phase_at_start(delta_s, gamma_in, n_steps) ==
    Local([gamma_in_min2 \in {PowMin2(gamma_in)} |->
    Local([beta_in \in {Sqrt(FSub(One, gamma_in_min2))} |->
    Local([delta_phi \in {FDiv(FMul(OMEGA_0_BUNCH_cdef, delta_s), FMul(beta_in, c_cdef))} |->
    Local([m \in {<< << One, FMul(delta_s, gamma_in_min2) >>, << Zero, One >> >>} |->
        IF IsRaise(delta_phi) THEN Raised(delta_phi)
        ELSE IF n_steps < 0 THEN Raised(ValueError)
        ELSE Returned([k \in 1..n_steps |-> m],
                      [k \in 1..n_steps |-> << gamma_in, FMul(FromInt(k - 1), delta_phi) >>],
                      <<>>)])])])])

\* the tuple returned by z_drift, or the exception it raises
z_drift(delta_s, gamma_in, n_steps) ==
    Local([gamma_in_min2 \in {PowMin2(gamma_in)} |->
    Local([beta_in \in {Sqrt(FSub(One, gamma_in_min2))} |->
    Local([delta_phi \in {FDiv(FMul(OMEGA_0_BUNCH_cdef, delta_s), FMul(beta_in, c_cdef))} |->
    Local([m \in {<< << One, FMul(delta_s, gamma_in_min2) >>, << Zero, One >> >>} |->
        IF IsRaise(delta_phi) THEN Raised(delta_phi)
        ELSE IF n_steps < 0 THEN Raised(ValueError)
        ELSE Returned([k \in 1..n_steps |-> m],
                      [k \in 1..n_steps |-> << gamma_in, FMul(FromInt(k), delta_phi) >>],
                      <<>>)])])])])

\* z_drift(...)[0][0]
DriftMatrix(delta_s, gamma_in) ==
    Local([res \in {z_drift(delta_s, gamma_in, 1)} |->
        IF res.status = "error"
        THEN << << res.exc, res.exc >>, << res.exc, res.exc >> >>
        ELSE res.r_zz[1]])

\* z_thin_lense with the two half drifts exchanged: the drift of the exit
\* gamma before the kick, the drift of the entrance gamma after it
z_thin_lense_drifts_swapped(gamma_in, gamma_m, gamma_out, phi_m, half_dz_s, delta_gamma_m_max, phi_0, omega0_rf) ==
    Local([beta_m \in {Sqrt(FSub(One, PowMin2(gamma_m)))} |->
    Local([k_speed1 \in {FDiv(delta_gamma_m_max, FMul(gamma_m, FMul(beta_m, beta_m)))} |->
    Local([k_speed2 \in {FMul(k_speed1, Cos(FAdd(phi_m, phi_0)))} |->
    Local([k_1 \in {FMul(FDiv(FMul(k_speed1, omega0_rf), FMul(beta_m, c_cdef)),
              Sin(FAdd(phi_m, phi_0)))} |->
    Local([k_2 \in {FSub(One, FMul(FSub(Two, FMul(beta_m, beta_m)), k_speed2))} |->
    Local([k_3 \in {FDiv(FSub(One, k_speed2), k_2)} |->
        MatMul(DriftMatrix(half_dz_s, gamma_in),
               MatMul(<< << k_3, Zero >>, << k_1, k_2 >> >>,
                      DriftMatrix(half_dz_s, gamma_out)))])])])])])])

\* z_thin_lense without the drift after the kick
z_thin_lense_no_exit_drift(gamma_in, gamma_m, gamma_out, phi_m, half_dz_s, delta_gamma_m_max, phi_0, omega0_rf) ==
    Local([beta_m \in {Sqrt(FSub(One, PowMin2(gamma_m)))} |->
    Local([k_speed1 \in {FDiv(delta_gamma_m_max, FMul(gamma_m, FMul(beta_m, beta_m)))} |->
    Local([k_speed2 \in {FMul(k_speed1, Cos(FAdd(phi_m, phi_0)))} |->
    Local([k_1 \in {FMul(FDiv(FMul(k_speed1, omega0_rf), FMul(beta_m, c_cdef)),
              Sin(FAdd(phi_m, phi_0)))} |->
    Local([k_2 \in {FSub(One, FMul(FSub(Two, FMul(beta_m, beta_m)), k_speed2))} |->
    Local([k_3 \in {FDiv(FSub(One, k_speed2), k_2)} |->
        MatMul(<< << k_3, Zero >>, << k_1, k_2 >> >>,
               DriftMatrix(half_dz_s, gamma_in))])])])])])])

\* a thin lens whose upper-left component is 1 / k_2, without the correction
z_thin_lense_uncorrected(gamma_in, gamma_m, gamma_out, phi_m, half_dz_s, delta_gamma_m_max, phi_0, omega0_rf) ==
    Local([beta_m \in {Sqrt(FSub(One, PowMin2(gamma_m)))} |->
    Local([k_speed1 \in {FDiv(delta_gamma_m_max, FMul(gamma_m, FMul(beta_m, beta_m)))} |->
    Local([k_speed2 \in {FMul(k_speed1, Cos(FAdd(phi_m, phi_0)))} |->
    Local([k_1 \in {FMul(FDiv(FMul(k_speed1, omega0_rf), FMul(beta_m, c_cdef)),
              Sin(FAdd(phi_m, phi_0)))} |->
    Local([k_2 \in {FSub(One, FMul(FSub(Two, FMul(beta_m, beta_m)), k_speed2))} |->
    Local([k_3 \in {FDiv(One, k_2)} |->
        MatMul(DriftMatrix(half_dz_s, gamma_out),
               MatMul(<< << k_3, Zero >>, << k_1, k_2 >> >>,
                      DriftMatrix(half_dz_s, gamma_in)))])])])])])])

z_thin_lense(gamma_in, gamma_m, gamma_out, phi_m, half_dz_s, delta_gamma_m_max, phi_0, omega0_rf) ==
    Local([beta_m \in {Sqrt(FSub(One, PowMin2(gamma_m)))} |->
    Local([k_speed1 \in {FDiv(delta_gamma_m_max, FMul(gamma_m, FMul(beta_m, beta_m)))} |->
    Local([k_speed2 \in {FMul(k_speed1, Cos(FAdd(phi_m, phi_0)))} |->
    Local([k_1 \in {FMul(FDiv(FMul(k_speed1, omega0_rf), FMul(beta_m, c_cdef)),
              Sin(FAdd(phi_m, phi_0)))} |->
    Local([k_2 \in {FSub(One, FMul(FSub(Two, FMul(beta_m, beta_m)), k_speed2))} |->
    Local([k_3 \in {FDiv(FSub(One, k_speed2), k_2)} |->
        MatMul(DriftMatrix(half_dz_s, gamma_out),
               MatMul(<< << k_3, Zero >>, << k_1, k_2 >> >>,
                      DriftMatrix(half_dz_s, gamma_in)))])])])])])])

\* -------------------------------------------------------------------------
\* The older module: tables of <<position, field>> columns, kinetic energies
\* -------------------------------------------------------------------------
\* np.column_stack((np.linspace(0., L_CAV, N_POINTS + 1), np.array([...])))
ColumnStack(l_cav, n_points, values) ==
    [k \in 1..(n_points + 1) |->
        << IF k = n_points + 1 THEN l_cav
           ELSE FMul(FromInt(k - 1), FDiv(l_cav, FromInt(n_points))),
           values[k] >>]

\* np.interp(z, xp, fp, left=0., right=0.)
np_interp(z, e_z_array) ==
    Local([n \in {Len(e_z_array)} |->
        IF IsNaN(z) THEN NaN
        ELSE IF FLt(z, e_z_array[1][1]) THEN Zero
        ELSE IF FGt(z, e_z_array[n][1]) THEN Zero
        ELSE IF z = e_z_array[n][1] THEN e_z_array[n][2]
        ELSE Local([j \in {CHOOSE j \in 1..(n - 1) :
                      FLe(e_z_array[j][1], z) /\ FLt(z, e_z_array[j + 1][1])} |->
             Local([slope \in {FDiv(FSub(e_z_array[j + 1][2], e_z_array[j][2]),
                       FSub(e_z_array[j + 1][1], e_z_array[j][1]))} |->
                 FAdd(FMul(slope, FSub(z, e_z_array[j][1])), e_z_array[j][2])])])])

interp_old(z, e_z_array) == np_interp(z, e_z_array)

e_func_old(k_e, z, e_z_array, phi, phi_0) ==
    FMul(FMul(k_e, interp_old(z, e_z_array)), Cos(FAdd(phi, phi_0)))

de_dt_func(k_e, z, e_z_array, phi, phi_0, factor) ==
    FMul(FMul(FMul(factor, k_e), interp_old(z, e_z_array)), Sin(FAdd(phi, phi_0)))

\* the closure du_dz of z_field_map: beta is the variable of the enclosing
\* call, set from the kinetic energy at the entrance of the cavity
du_dz(z, u, k_e, e_z_array, phi_0_rel, omega0_rf, beta) ==
    << FMul(q_adim_cdef, e_func_old(k_e, z, e_z_array, u[2], phi_0_rel)),
       FDiv(omega0_rf, FMul(beta, c_cdef)) >>

\* u + h * k of two-element arrays
Axpy(u, h, k) == << FAdd(u[1], FMul(h, k[1])), FAdd(u[2], FMul(h, k[2])) >>

rk4_old(u, x, dx, k_e, e_z_array, phi_0_rel, omega0_rf, beta) ==
    Local([half_dx \in {FMul(Half, dx)} |->
    Local([k_1 \in {du_dz(x, u, k_e, e_z_array, phi_0_rel, omega0_rf, beta)} |->
    Local([k_2 \in {du_dz(FAdd(x, half_dx), Axpy(u, half_dx, k_1),
               k_e, e_z_array, phi_0_rel, omega0_rf, beta)} |->
    Local([k_3 \in {du_dz(FAdd(x, half_dx), Axpy(u, half_dx, k_2),
               k_e, e_z_array, phi_0_rel, omega0_rf, beta)} |->
    Local([k_4 \in {du_dz(FAdd(x, dx), Axpy(u, dx, k_3),
               k_e, e_z_array, phi_0_rel, omega0_rf, beta)} |->
        [j \in 1..2 |->
            FDiv(FMul(FAdd(FAdd(FAdd(k_1[j], FMul(Two, k_2[j])), FMul(Two, k_3[j])),
                           k_4[j]), dx),
                 FromInt(6))]])])])])])

\* the tuple returned by the older z_drift, or the exception it raises
z_drift_old(delta_s, W_kin_in, n_steps) ==
    Local([gamma_in_min2 \in {PowMin2(FAdd(One, FMul(W_kin_in, inv_E_rest_MeV_cdef)))} |->
    Local([m \in {<< << One, FMul(delta_s, gamma_in_min2) >>, << Zero, One >> >>} |->
    Local([beta_in \in {Sqrt(FSub(One, gamma_in_min2))} |->
    Local([delta_phi \in {FDiv(FMul(OMEGA_0_BUNCH_cdef, delta_s), FMul(beta_in, c_cdef))} |->
        IF n_steps < 0 THEN Raised(ValueError)
        ELSE IF IsRaise(delta_phi) THEN Raised(delta_phi)
        ELSE Returned([k \in 1..n_steps |-> m],
                      [k \in 1..n_steps |->
                          << W_kin_in, FAdd(FMul(FromInt(k - 1), delta_phi), delta_phi) >>],
                      <<>>)])])])])

DriftMatrixOld(delta_s, W_kin_in) ==
    Local([res \in {z_drift_old(delta_s, W_kin_in, 1)} |->
        IF res.status = "error"
        THEN << << res.exc, res.exc >>, << res.exc, res.exc >> >>
        ELSE res.r_zz[1]])

z_thin_lense_old(d_z, half_dz, W_kin_in, gamma_middle, W_kin_out, beta_middle, z_rel_, phi_rel, omega0_rf, norm, phi_0, e_z_array) ==
    Local([r_in \in {DriftMatrixOld(half_dz, W_kin_in)} |->
    Local([z_k \in {FAdd(z_rel_, half_dz)} |->
    Local([delta_phi_half_step \in {FDiv(FMul(half_dz, omega0_rf), FMul(beta_middle, c_cdef))} |->
    Local([phi_k \in {FAdd(phi_rel, delta_phi_half_step)} |->
    Local([k_0 \in {FDiv(FMul(q_adim_cdef, d_z),
              FMul(FMul(gamma_middle, FMul(beta_middle, beta_middle)), E_rest_MeV_cdef))} |->
    Local([factor \in {FDiv(omega0_rf, FMul(beta_middle, c_cdef))} |->
    Local([k_1 \in {FMul(k_0, de_dt_func(norm, z_k, e_z_array, phi_k, phi_0, factor))} |->
    Local([e_func_k \in {e_func_old(norm, z_k, e_z_array, phi_k, phi_0)} |->
    Local([b2 \in {FSub(Two, FMul(beta_middle, beta_middle))} |->
    Local([k_2 \in {FSub(One, FMul(FMul(b2, k_0), e_func_k))} |->
    \* Correction to ensure det < 1
    Local([k_3 \in {FDiv(FSub(One, FMul(k_0, e_func_k)),
              FSub(One, FMul(FMul(k_0, b2), e_func_k)))} |->
        MatMul(DriftMatrixOld(half_dz, W_kin_out),
               MatMul(<< << k_3, Zero >>, << k_1, k_2 >> >>, r_in))])])])])])])])])])])])

\* what init_arrays() of the older module assigns to E_Z_SIMPLE_SPOKE,
\* E_Z_SPOKE_ESS and E_Z_BETA065; short tables of the same layout stand
\* for the hard-coded ones
init_arrays_old ==
    << ColumnStack(One, 2, <<FromInt(1), FromInt(2), FromInt(-1)>>),
       ColumnStack(Two, 1, <<FromInt(2), FromInt(4)>>),
       ColumnStack(Fl(3, 10), 3, <<FromInt(1), FromInt(3), FromInt(-2), Half>>) >>

\* -------------------------------------------------------------------------
\* State
\* -------------------------------------------------------------------------
VARIABLES
    l_d_ez_set,   \* whether the module global l_d_ez has been assigned
    l_d_ez,       \* the list of field tables (init_arrays)
    E_Z,          \* the module globals E_Z_* of the older module
    pc,           \* "idle", or the driver whose loop is running
    args,         \* the arguments of the call in progress or last made
    tab,          \* e_z, inv_dz_e, n_points_e of the running driver
    i,            \* loop index of the running driver
    z_rel,        \* running position of the running driver
    gamma_phi,    \* gamma_phi_array, rows 0..i
    r_zz,         \* r_zz_array, rows 0..i-1
    itg_field,    \* complex accumulator <<re, im>>
    lens,         \* arguments of the last z_thin_lense call of the loop
    result,       \* what the last finished call returned or raised
    first_call    \* a finished call that the caller kept, to compare with

vars == << l_d_ez_set, l_d_ez, E_Z, pc, args, tab, i, z_rel, gamma_phi, r_zz,
           itg_field, lens, result, first_call >>

\* inputs of the calls
Lengths == {Fl(1, 4), Fl(1, 2)}
Gammas == {GAMMA_cdef, Fl(11, 10)}
Energies == {Fl(166, 10), Fl(93827203, 1000000)}
StepCounts == -1..MaxSteps
DriftStepCounts == -1..(MaxSteps + 2)
DriftGammas == Gammas \cup {One, Half}
DriftEnergies == Energies \cup {Zero}
Amplitudes == {Zero, FromInt(20), FromInt(-40)}
PhaseOffsets == {Zero, FromInt(3)}
Pulsations == {OMEGA_0_BUNCH_cdef}
SectionIdx == -1..3
Positions == {Fl(k, 4) : k \in -1..9} \cup {Fl(k, 10) : k \in 1..3}

NoArgs == [fn |-> "none", dz_s |-> Zero, gamma_in |-> Zero, n_steps |-> 0,
           omega0_rf |-> Zero, k_e |-> Zero, phi_0_rel |-> Zero, section_idx |-> 0,
           z |-> Zero]
NoTab == [e_z |-> <<>>, n_points |-> 0, inv_dz |-> Zero]
NoLens == [gamma_in |-> Zero, gamma_m |-> Zero, gamma_out |-> Zero, phi_m |-> Zero,
           half_dz_s |-> Zero, delta_gamma_m_max |-> Zero, z_m |-> Zero]

\* no call kept yet
NoCall == [args |-> NoArgs, result |-> NoResult]

Init ==
    /\ l_d_ez_set = FALSE
    /\ l_d_ez = <<>>
    /\ E_Z = <<>>
    /\ pc = "idle"
    /\ args = NoArgs
    /\ tab = NoTab
    /\ i = 0
    /\ z_rel = Zero
    /\ gamma_phi = <<>>
    /\ r_zz = <<>>
    /\ itg_field = << Zero, Zero >>
    /\ lens = NoLens
    /\ result = NoResult
    /\ first_call = NoCall

\* init_arrays(l_filepaths)
init_arrays(l_filepaths, unset) ==
    /\ pc = "idle"
    /\ result = NoResult
    /\ l_d_ez_set' = TRUE
    /\ l_d_ez' = [k \in 1..Len(l_filepaths) |-> LoadFile(l_filepaths[k], unset)]
    /\ UNCHANGED << first_call, E_Z, pc, args, tab, i, z_rel, gamma_phi, r_zz, itg_field,
                    lens, result >>

\* interp(z, e_z, inv_dz_e, n_points_e) on the table of a section, as the
\* drivers call it
CallInterp(z, section_idx, oob) ==
    /\ pc = "idle"
    /\ result = NoResult
    /\ l_d_ez_set
    /\ section_idx \in 0..(Len(l_d_ez) - 1)
    /\ LET t == l_d_ez[section_idx + 1]
       IN  /\ tab' = t
           /\ result' = ReturnedOut(interp(z, t.e_z, t.inv_dz, t.n_points, oob))
    /\ args' = [NoArgs EXCEPT !.fn = "interp", !.z = z, !.section_idx = section_idx]
    /\ UNCHANGED << first_call, l_d_ez_set, l_d_ez, E_Z, pc, i, z_rel, gamma_phi, r_zz,
                    itg_field, lens >>

\* interp(z, e_z_array) of the older module on one of its tables
CallInterpOld(z, section_idx) ==
    /\ pc = "idle"
    /\ result = NoResult
    /\ section_idx \in 0..2
    /\ tab' = [NoTab EXCEPT !.e_z = init_arrays_old[section_idx + 1]]
    /\ result' = ReturnedOut(interp_old(z, init_arrays_old[section_idx + 1]))
    /\ args' = [NoArgs EXCEPT !.fn = "interp_old", !.z = z, !.section_idx = section_idx]
    /\ UNCHANGED << first_call, l_d_ez_set, l_d_ez, E_Z, pc, i, z_rel, gamma_phi, r_zz,
                    itg_field, lens >>

\* z_drift(delta_s, gamma_in, n_steps)
CallDrift(delta_s, gamma_in, n_steps) ==
    /\ pc = "idle"
    /\ result = NoResult
    /\ args' = [NoArgs EXCEPT !.fn = "z_drift", !.dz_s = delta_s,
                              !.gamma_in = gamma_in, !.n_steps = n_steps]
    /\ result' = z_drift(delta_s, gamma_in, n_steps)
    /\ UNCHANGED << first_call, l_d_ez_set, l_d_ez, E_Z, pc, tab, i, z_rel, gamma_phi, r_zz,
                    itg_field, lens >>

\* l_d_ez[section_idx], the subscription of a Python list: a negative index
\* counts from the end
ListIndex(lst, idx) == IF idx < 0 THEN idx + Len(lst) + 1 ELSE idx + 1

\* the table l_d_ez[section_idx] of a call that gets as far as reading it
TableOf(section_idx) ==
    LET k == ListIndex(l_d_ez, section_idx)
    IN  IF l_d_ez_set /\ 1 <= k /\ k <= Len(l_d_ez) THEN l_d_ez[k] ELSE NoTab

\* the part of a field-map driver before its loop; gamma_0 is gamma_phi[0, 0]
Prologue(fn, dz_s, gamma_in, n_steps, omega0_rf, k_e, phi_0_rel, section_idx, gamma_0) ==
    /\ pc = "idle"
    /\ result = NoResult
    /\ args' = [fn |-> fn, dz_s |-> dz_s, gamma_in |-> gamma_in, n_steps |-> n_steps,
                omega0_rf |-> omega0_rf, k_e |-> k_e, phi_0_rel |-> phi_0_rel,
                section_idx |-> section_idx, z |-> Zero]
    /\ lens' = NoLens
    /\ i' = 0
    /\ z_rel' = Zero
    /\ r_zz' = <<>>
    /\ itg_field' = << Zero, Zero >>
    /\ UNCHANGED << first_call, l_d_ez_set, l_d_ez, E_Z >>
    /\ LET k == ListIndex(l_d_ez, section_idx)
           exc == IF n_steps < 0 THEN ValueError
                  ELSE IF ~l_d_ez_set THEN NameError
                  ELSE IF k < 1 \/ k > Len(l_d_ez) THEN IndexError
                  ELSE Zero
       IN  IF exc # Zero \/ IsRaise(gamma_0)
           THEN /\ result' = Raised(IF exc # Zero THEN exc ELSE gamma_0)
                /\ pc' = "idle"
                /\ tab' = NoTab
                /\ gamma_phi' = <<>>
           ELSE /\ result' = NoResult
                /\ pc' = fn
                /\ tab' = l_d_ez[k]
                /\ gamma_phi' = << << gamma_0, Zero >> >>

k_k_of(a) == FMul(FMul(FMul(q_adim_cdef, a.dz_s), inv_E_rest_MeV_cdef), a.k_e)
delta_phi_norm_of(a) == FDiv(FMul(a.omega0_rf, a.dz_s), c_cdef)

\* z_field_map_rk4(dz_s, gamma_in, n_steps, dict_rf_field), up to its loop
CallRk4(dz_s, gamma_in, n_steps, omega0_rf, k_e, phi_0_rel, section_idx) ==
    Prologue("z_field_map_rk4", dz_s, gamma_in, n_steps, omega0_rf, k_e, phi_0_rel,
             section_idx, gamma_in)

\* the shared part of a loop pass with the position advanced before the
\* matrix of the step is built
thin_lense_pass_after_advance(new_row, gamma_middle, phi_middle, oob) ==
    Local([half_dz_s \in {FMul(Half, args.dz_s)} |->
    Local([k_k \in {k_k_of(args)} |->
    Local([row \in {gamma_phi[i + 1]} |->
    Local([e \in {FMul(args.k_e,
              e_func(z_rel, tab.e_z, tab.inv_dz, tab.n_points, row[2], args.phi_0_rel,
                     oob))} |->
    Local([t \in {Tan(FAdd(row[2], args.phi_0_rel))} |->
    Local([itg \in {<< FAdd(itg_field[1], FMul(e, args.dz_s)),
            FAdd(itg_field[2], FMul(FMul(e, t), args.dz_s)) >>} |->
    Local([z_m \in {FAdd(FAdd(z_rel, args.dz_s), half_dz_s)} |->
    Local([delta_gamma_middle_max \in
               {FMul(k_k, interp(z_m, tab.e_z, tab.inv_dz, tab.n_points, oob))} |->
    Local([m \in {z_thin_lense(row[1], gamma_middle, new_row[1], phi_middle, half_dz_s,
                      delta_gamma_middle_max, args.phi_0_rel, args.omega0_rf)} |->
        [exc |-> IF IsRaise(new_row[1]) THEN new_row[1]
                 ELSE IF IsRaise(new_row[2]) THEN new_row[2]
                 ELSE IF IsRaise(itg[1]) THEN itg[1]
                 ELSE IF IsRaise(itg[2]) THEN itg[2]
                 ELSE IF MatRaises(m) THEN MatRaise(m)
                 ELSE Zero,
         new_row |-> new_row, itg |-> itg, m |-> m,
         lens |-> [gamma_in |-> row[1], gamma_m |-> gamma_middle,
                   gamma_out |-> new_row[1], phi_m |-> phi_middle,
                   half_dz_s |-> half_dz_s,
                   delta_gamma_m_max |-> delta_gamma_middle_max, z_m |-> z_m]]])])])])])])])])])

\* the part of a loop pass that both drivers share, given the new row of
\* gamma_phi_array and the midpoint values: the integrated field, the
\* arguments and the result of z_thin_lense, and the exception raised on the
\* way, if any
thin_lense_pass(new_row, gamma_middle, phi_middle, oob) ==
    Local([half_dz_s \in {FMul(Half, args.dz_s)} |->
    Local([k_k \in {k_k_of(args)} |->
    Local([row \in {gamma_phi[i + 1]} |->
    Local([e \in {FMul(args.k_e,
              e_func(z_rel, tab.e_z, tab.inv_dz, tab.n_points, row[2], args.phi_0_rel,
                     oob))} |->
    Local([t \in {Tan(FAdd(row[2], args.phi_0_rel))} |->
    Local([itg \in {<< FAdd(itg_field[1], FMul(e, args.dz_s)),
            FAdd(itg_field[2], FMul(FMul(e, t), args.dz_s)) >>} |->
    Local([z_m \in {FAdd(z_rel, half_dz_s)} |->
    Local([delta_gamma_middle_max \in
               {FMul(k_k, interp(z_m, tab.e_z, tab.inv_dz, tab.n_points, oob))} |->
    Local([m \in {z_thin_lense(row[1], gamma_middle, new_row[1], phi_middle, half_dz_s,
                      delta_gamma_middle_max, args.phi_0_rel, args.omega0_rf)} |->
        [exc |-> IF IsRaise(new_row[1]) THEN new_row[1]
                 ELSE IF IsRaise(new_row[2]) THEN new_row[2]
                 ELSE IF IsRaise(itg[1]) THEN itg[1]
                 ELSE IF IsRaise(itg[2]) THEN itg[2]
                 ELSE IF MatRaises(m) THEN MatRaise(m)
                 ELSE Zero,
         new_row |-> new_row, itg |-> itg, m |-> m,
         lens |-> [gamma_in |-> row[1], gamma_m |-> gamma_middle,
                   gamma_out |-> new_row[1], phi_m |-> phi_middle,
                   half_dz_s |-> half_dz_s,
                   delta_gamma_m_max |-> delta_gamma_middle_max, z_m |-> z_m]]])])])])])])])])])

\* a loop pass that leaves the integrated field as it was
LoopTail_keeps_field(s) ==
    IF s.exc # Zero
    THEN /\ result' = Raised(s.exc)
         /\ pc' = "idle"
         /\ UNCHANGED << i, z_rel, gamma_phi, r_zz, itg_field, lens >>
    ELSE /\ gamma_phi' = Append(gamma_phi, s.new_row)
         /\ lens' = s.lens
         /\ r_zz' = Append(r_zz, s.m)
         /\ z_rel' = FAdd(z_rel, args.dz_s)
         /\ i' = i + 1
         /\ UNCHANGED << pc, result, itg_field >>

\* the assignments of a loop pass that computed s
LoopTail(s) ==
    IF s.exc # Zero
    THEN /\ result' = Raised(s.exc)
         /\ pc' = "idle"
         /\ UNCHANGED << i, z_rel, gamma_phi, r_zz, itg_field, lens >>
    ELSE /\ gamma_phi' = Append(gamma_phi, s.new_row)
         /\ itg_field' = s.itg
         /\ lens' = s.lens
         /\ r_zz' = Append(r_zz, s.m)
         /\ z_rel' = FAdd(z_rel, args.dz_s)
         /\ i' = i + 1
         /\ UNCHANGED << pc, result >>

\* the body of the loop of z_field_map_rk4
\* a pass that builds the intermediate states in the entrance row itself, so
\* that the increment is added to a row that already holds it
rk4_pass_in_place(oob) ==
    Local([row \in {gamma_phi[i + 1]} |->
    Local([delta_gamma_phi \in
               {rk4(z_rel, row, args.dz_s, k_k_of(args), tab.e_z, tab.inv_dz, tab.n_points,
             args.phi_0_rel, delta_phi_norm_of(args), oob)} |->
    Local([new_row \in
               {<< FAdd(FAdd(row[1], delta_gamma_phi[1]), delta_gamma_phi[1]),
                   FAdd(FAdd(row[2], delta_gamma_phi[2]), delta_gamma_phi[2]) >>} |->
    Local([gamma_middle \in {FMul(Half, FAdd(row[1], new_row[1]))} |->
    Local([phi_middle \in {FAdd(row[2], FMul(Half, delta_gamma_phi[2]))} |->
        thin_lense_pass(new_row, gamma_middle, phi_middle, oob)])])])])])

rk4_pass(oob) ==
    Local([row \in {gamma_phi[i + 1]} |->
    Local([delta_gamma_phi \in
               {rk4(z_rel, row, args.dz_s, k_k_of(args), tab.e_z, tab.inv_dz, tab.n_points,
             args.phi_0_rel, delta_phi_norm_of(args), oob)} |->
    Local([new_row \in
               {<< FAdd(row[1], delta_gamma_phi[1]), FAdd(row[2], delta_gamma_phi[2]) >>} |->
    Local([gamma_middle \in {FMul(Half, FAdd(row[1], new_row[1]))} |->
    Local([phi_middle \in {FAdd(row[2], FMul(Half, delta_gamma_phi[2]))} |->
        thin_lense_pass(new_row, gamma_middle, phi_middle, oob)])])])])])

\* one pass of the loop of z_field_map_rk4
LoopRk4(oob) ==
    /\ pc = "z_field_map_rk4"
    /\ i < args.n_steps
    /\ \E s \in {rk4_pass(oob)} : LoopTail(s)
    /\ UNCHANGED << first_call, l_d_ez_set, l_d_ez, E_Z, args, tab >>

\* z_field_map_leapfrog(dz_s, gamma_in, n_steps, dict_rf_field), up to its loop
CallLeapfrog(dz_s, gamma_in, n_steps, omega0_rf, k_e, phi_0_rel, section_idx, oob) ==
    LET t == TableOf(section_idx)
        k_k == FMul(FMul(FMul(q_adim_cdef, dz_s), inv_E_rest_MeV_cdef), k_e)
        \* Rewind energy from i=0 to i=-0.5 if we are at the first cavity
        gamma_0 == IF gamma_in = GAMMA_cdef
                   THEN FSub(gamma_in,
                             FMul(FMul(Half, k_k),
                                  e_func(Zero, t.e_z, t.inv_dz, t.n_points, Zero,
                                         phi_0_rel, oob)))
                   ELSE gamma_in
    IN  Prologue("z_field_map_leapfrog", dz_s, gamma_in, n_steps, omega0_rf, k_e,
                 phi_0_rel, section_idx, IF t = NoTab THEN gamma_in ELSE gamma_0)

\* the body of the loop with the phase advanced by the beta of the gamma
\* from before the kick
leapfrog_pass_beta_before_kick(oob) ==
    Local([row \in {gamma_phi[i + 1]} |->
    Local([delta_gamma \in {FMul(k_k_of(args),
              e_func(z_rel, tab.e_z, tab.inv_dz, tab.n_points, row[2], args.phi_0_rel,
                     oob))} |->
    Local([gamma_next \in {FAdd(row[1], delta_gamma)} |->
    Local([beta \in {Sqrt(FSub(One, PowMin2(row[1])))} |->
    Local([delta_phi \in {FDiv(delta_phi_norm_of(args), beta)} |->
    Local([new_row \in {<< gamma_next, FAdd(row[2], delta_phi) >>} |->
    Local([gamma_middle \in {row[1]} |->
    Local([phi_middle \in {FAdd(row[2], FMul(Half, delta_phi))} |->
        thin_lense_pass(new_row, gamma_middle, phi_middle, oob)])])])])])])])])

\* the body of the loop of z_field_map_leapfrog
leapfrog_pass(oob) ==
    Local([row \in {gamma_phi[i + 1]} |->
    Local([delta_gamma \in {FMul(k_k_of(args),
              e_func(z_rel, tab.e_z, tab.inv_dz, tab.n_points, row[2], args.phi_0_rel,
                     oob))} |->
    Local([gamma_next \in {FAdd(row[1], delta_gamma)} |->
    Local([beta \in {Sqrt(FSub(One, PowMin2(gamma_next)))} |->
    Local([delta_phi \in {FDiv(delta_phi_norm_of(args), beta)} |->
    Local([new_row \in {<< gamma_next, FAdd(row[2], delta_phi) >>} |->
    Local([gamma_middle \in {row[1]} |->
    Local([phi_middle \in {FAdd(row[2], FMul(Half, delta_phi))} |->
        thin_lense_pass(new_row, gamma_middle, phi_middle, oob)])])])])])])])])

\* one pass of the loop of z_field_map_leapfrog
LoopLeapfrog(oob) ==
    /\ pc = "z_field_map_leapfrog"
    /\ i < args.n_steps
    /\ \E s \in {leapfrog_pass(oob)} : LoopTail(s)
    /\ UNCHANGED << first_call, l_d_ez_set, l_d_ez, E_Z, args, tab >>

\* the older z_drift(delta_s, W_kin_in, n_steps)
CallDriftOld(delta_s, W_kin_in, n_steps) ==
    /\ pc = "idle"
    /\ result = NoResult
    /\ args' = [NoArgs EXCEPT !.fn = "z_drift_old", !.dz_s = delta_s,
                              !.gamma_in = W_kin_in, !.n_steps = n_steps]
    /\ result' = z_drift_old(delta_s, W_kin_in, n_steps)
    /\ UNCHANGED << first_call, l_d_ez_set, l_d_ez, E_Z, pc, tab, i, z_rel, gamma_phi, r_zz,
                    itg_field, lens >>

\* gamma and beta of a kinetic energy
GammaOf(W_kin) == FAdd(One, FMul(W_kin, inv_E_rest_MeV_cdef))
BetaOf(gamma) == Sqrt(FSub(One, PowMin2(gamma)))

\* the older z_field_map(d_z, W_kin_in, n_steps, omega0_rf, k_e, phi_0_rel,
\* section_idx), up to its loop
CallFieldMap(d_z, W_kin_in, n_steps, omega0_rf, k_e, phi_0_rel, section_idx) ==
    /\ pc = "idle"
    /\ result = NoResult
    /\ args' = [fn |-> "z_field_map", dz_s |-> d_z, gamma_in |-> W_kin_in,
                n_steps |-> n_steps, omega0_rf |-> omega0_rf, k_e |-> k_e,
                phi_0_rel |-> phi_0_rel, section_idx |-> section_idx, z |-> Zero]
    /\ lens' = NoLens
    /\ i' = 0
    /\ z_rel' = Zero
    /\ r_zz' = <<>>
    /\ itg_field' = << Zero, Zero >>
    /\ UNCHANGED << first_call, l_d_ez_set, l_d_ez >>
    /\ IF n_steps < 0
       THEN /\ result' = Raised(ValueError)
            /\ pc' = "idle"
            /\ tab' = NoTab
            /\ gamma_phi' = <<>>
            /\ UNCHANGED E_Z
       ELSE /\ E_Z' = init_arrays_old
            /\ IF section_idx \in 0..2
               THEN /\ result' = NoResult
                    /\ pc' = "z_field_map"
                    /\ tab' = [NoTab EXCEPT !.e_z = init_arrays_old[section_idx + 1]]
                    /\ gamma_phi' = << << W_kin_in, Zero >> >>
               ELSE /\ result' = Raised(IOError)
                    /\ pc' = "idle"
                    /\ tab' = NoTab
                    /\ gamma_phi' = <<>>

\* the body of the loop of the older z_field_map
field_map_pass ==
    Local([half_d_z \in {FMul(Half, args.dz_s)} |->
    Local([gamma \in {GammaOf(args.gamma_in)} |->
    Local([beta \in {BetaOf(gamma)} |->
    Local([row \in {gamma_phi[i + 1]} |->
    Local([delta_W_phi \in {rk4_old(row, z_rel, args.dz_s, args.k_e, tab.e_z, args.phi_0_rel,
                 args.omega0_rf, beta)} |->
    Local([e \in {e_func_old(args.k_e, z_rel, tab.e_z, row[2], args.phi_0_rel)} |->
    Local([t \in {Tan(FAdd(row[2], args.phi_0_rel))} |->
    Local([itg \in {<< FAdd(itg_field[1], FMul(e, args.dz_s)),
            FAdd(itg_field[2], FMul(FMul(e, t), args.dz_s)) >>} |->
    Local([new_row \in {<< FAdd(row[1], delta_W_phi[1]), FAdd(row[2], delta_W_phi[2]) >>} |->
    Local([gamma_next \in {GammaOf(new_row[1])} |->
    Local([gamma_middle \in {FMul(Half, FAdd(gamma, gamma_next))} |->
    Local([beta_middle \in {BetaOf(gamma_middle)} |->
    Local([m \in {z_thin_lense_old(args.dz_s, half_d_z, row[1], gamma_middle, new_row[1],
                          beta_middle, z_rel, row[2], args.omega0_rf, args.k_e,
                          args.phi_0_rel, tab.e_z)} |->
        [exc |-> IF IsRaise(new_row[1]) THEN new_row[1]
                 ELSE IF IsRaise(new_row[2]) THEN new_row[2]
                 ELSE IF IsRaise(itg[1]) THEN itg[1]
                 ELSE IF IsRaise(itg[2]) THEN itg[2]
                 ELSE IF MatRaises(m) THEN MatRaise(m)
                 ELSE Zero,
         new_row |-> new_row, itg |-> itg, m |-> m,
         lens |-> [gamma_in |-> row[1], gamma_m |-> gamma_middle,
                   gamma_out |-> new_row[1], phi_m |-> row[2],
                   half_dz_s |-> half_d_z,
                   delta_gamma_m_max |-> Zero, z_m |-> z_rel]]])])])])])])])])])])])])])

\* one pass of the loop of the older z_field_map
LoopFieldMap ==
    /\ pc = "z_field_map"
    /\ i < args.n_steps
    /\ \E s \in {field_map_pass} : LoopTail(s)
    /\ UNCHANGED << first_call, l_d_ez_set, l_d_ez, E_Z, args, tab >>

\* return r_zz_array, gamma_phi_array, itg_field
Return_whole_array ==
    /\ pc # "idle"
    /\ i >= args.n_steps
    /\ result' = Returned(r_zz, gamma_phi, itg_field)
    /\ pc' = "idle"
    /\ UNCHANGED << first_call, l_d_ez_set, l_d_ez, E_Z, args, tab, i, z_rel, gamma_phi, r_zz,
                    itg_field, lens >>

\* return r_zz_array, gamma_phi_array[1:, :], itg_field
Return ==
    /\ pc # "idle"
    /\ i >= args.n_steps
    /\ result' = Returned(r_zz, Tail(gamma_phi), itg_field)
    /\ pc' = "idle"
    /\ UNCHANGED << first_call, l_d_ez_set, l_d_ez, E_Z, args, tab, i, z_rel, gamma_phi, r_zz,
                    itg_field, lens >>

\* the frame of a finished call is gone
EndOfCall ==
    /\ pc = "idle"
    /\ result # NoResult
    /\ result' = NoResult
    /\ args' = NoArgs
    /\ tab' = NoTab
    /\ i' = 0
    /\ z_rel' = Zero
    /\ gamma_phi' = <<>>
    /\ r_zz' = <<>>
    /\ itg_field' = << Zero, Zero >>
    /\ lens' = NoLens
    /\ UNCHANGED << l_d_ez_set, l_d_ez, E_Z, pc >>

\* the caller takes what the call gave back
Collect == EndOfCall /\ UNCHANGED first_call

Next ==
    \/ \E l \in FilepathLists : \E unset \in Uninitialised : init_arrays(l, unset)
    \/ \E z \in Positions, s \in SectionIdx, oob \in OobOutcomes : CallInterp(z, s, oob)
    \/ \E z \in Positions, s \in SectionIdx : CallInterpOld(z, s)
    \/ \E d \in Lengths, g \in DriftGammas, n \in DriftStepCounts : CallDrift(d, g, n)
    \/ \E d \in Lengths, g \in Gammas, n \in StepCounts, w \in Pulsations,
          k \in Amplitudes, p \in PhaseOffsets, s \in SectionIdx :
            CallRk4(d, g, n, w, k, p, s)
    \/ \E d \in Lengths, g \in Gammas, n \in StepCounts, w \in Pulsations,
          k \in Amplitudes, p \in PhaseOffsets, s \in SectionIdx, oob \in OobOutcomes :
            CallLeapfrog(d, g, n, w, k, p, s, oob)
    \/ \E d \in Lengths, w \in DriftEnergies, n \in DriftStepCounts : CallDriftOld(d, w, n)
    \/ \E d \in Lengths, e \in Energies, n \in StepCounts, w \in Pulsations,
          k \in Amplitudes, p \in PhaseOffsets, s \in SectionIdx :
            CallFieldMap(d, e, n, w, k, p, s)
    \/ LoopFieldMap
    \/ \E oob \in OobOutcomes : LoopRk4(oob)
    \/ \E oob \in OobOutcomes : LoopLeapfrog(oob)
    \/ Return
    \/ Collect

Spec == Init /\ [][Next]_vars

\* the caller keeps the arguments and the outcome of a finished call of the
\* new module
Remember ==
    /\ first_call = NoCall
    /\ args.fn \in {"z_drift", "z_field_map_rk4", "z_field_map_leapfrog"}
    /\ first_call' = [args |-> args, result |-> result]
    /\ EndOfCall

\* the call about to return is the first one, or has the arguments of the
\* call that was kept
SameCall == first_call = NoCall \/ args' = first_call.args

\* gamma at the exit of a cavity: the last row of the trajectory returned
ExitGamma(call) == call.result.gamma_phi[Len(call.result.gamma_phi)][1]

\* z_field_map_leapfrog for the cavity that follows the kept one: same
\* section and steps, its own amplitude, entered with the gamma the kept
\* cavity was left with
NextCavity(k_e, oob) ==
    /\ first_call.args.fn = "z_field_map_leapfrog"
    /\ first_call.result.status = "ok"
    /\ first_call.result.gamma_phi # <<>>
    /\ CallLeapfrog(first_call.args.dz_s, ExitGamma(first_call), first_call.args.n_steps,
                    first_call.args.omega0_rf, k_e, first_call.args.phi_0_rel,
                    first_call.args.section_idx, oob)

\* inputs of the repeated calls
TwiceSteps == 1..MaxSteps
TwiceAmplitudes == {Zero, FromInt(20)}
TwicePhaseOffsets == {Zero}
TwiceSectionIdx == -1..1

\* a caller that loads field maps between calls and, once it has kept a
\* call, repeats that call or goes on to the next cavity
NextTwice ==
    \/ \E l \in FilepathLists : \E unset \in Uninitialised : init_arrays(l, unset)
    \/ \E d \in Lengths, g \in DriftGammas, n \in TwiceSteps :
            CallDrift(d, g, n) /\ SameCall
    \/ \E d \in Lengths, g \in Gammas, n \in TwiceSteps, w \in Pulsations,
          k \in TwiceAmplitudes, p \in TwicePhaseOffsets, s \in TwiceSectionIdx :
            CallRk4(d, g, n, w, k, p, s) /\ SameCall
    \/ \E d \in Lengths, g \in Gammas, n \in TwiceSteps, w \in Pulsations,
          k \in TwiceAmplitudes, p \in TwicePhaseOffsets, s \in TwiceSectionIdx,
          oob \in OobOutcomes :
            CallLeapfrog(d, g, n, w, k, p, s, oob) /\ SameCall
    \/ \E k \in TwiceAmplitudes, oob \in OobOutcomes : NextCavity(k, oob)
    \/ \E oob \in OobOutcomes : LoopRk4(oob)
    \/ \E oob \in OobOutcomes : LoopLeapfrog(oob)
    \/ Return
    \/ Collect
    \/ Remember

SpecTwice == Init /\ [][NextTwice]_vars

\* -------------------------------------------------------------------------
\* Properties
\* -------------------------------------------------------------------------
FAbs(x) == IF x \in NotANumber THEN x ELSE << Abs(x[1]), x[2] >>
FGe(x, y) == FLe(y, x)

\* tolerance of the comparisons made "within floating tolerance"
Tol == Fl(1, 128)
Near(x, y) == x = y \/ FLe(FAbs(FSub(x, y)), FMul(Tol, FAbs(y)))

NewDrivers == {"z_field_map_rk4", "z_field_map_leapfrog"}
Drivers == NewDrivers \cup {"z_field_map"}

\* [[1, dz * gamma**-2], [0, 1]]
FullDrift(dz, gamma) == << << One, FMul(dz, PowMin2(gamma)) >>, << Zero, One >> >>

\* the length of the table a sampler was called on
TableLength ==
    IF args.fn = "interp" THEN FDiv(FromInt(tab.n_points - 1), tab.inv_dz)
    ELSE tab.e_z[Len(tab.e_z)][1]

InterpCalled == args.fn \in {"interp", "interp_old"} /\ result # NoResult

\* C1: every step matrix that z_thin_lense builds for the RK4 and the
\* leapfrog driver, with entrance, midpoint and exit gamma above 1, has a
\* determinant of at most 1 within a small tolerance, also when the field
\* term is negative
C1_DetAtMostOne ==
    (/\ args.fn \in NewDrivers
     /\ r_zz # <<>>
     /\ FGt(lens.gamma_in, One) /\ FGt(lens.gamma_m, One) /\ FGt(lens.gamma_out, One))
    => FLe(Det(r_zz[Len(r_zz)]), FAdd(One, Tol))

\* C2: with a field amplitude k_e of 0 every step matrix of z_field_map_rk4,
\* of z_field_map_leapfrog and of the older z_field_map is the drift matrix
\* [[1, dz * gamma_in**-2], [0, 1]] of the whole step, and gamma at the exit
\* of a step is gamma at its entrance
C2_ZeroFieldIsDrift ==
    /\ (args.fn \in NewDrivers /\ args.k_e = Zero) =>
          /\ \A k \in 1..Len(r_zz) : r_zz[k] = FullDrift(args.dz_s, args.gamma_in)
          /\ \A k \in 1..Len(gamma_phi) : gamma_phi[k][1] = args.gamma_in
          /\ result.status = "ok" => result.r_zz = r_zz
    /\ (args.fn = "z_field_map" /\ args.k_e = Zero) =>
          /\ \A k \in 1..Len(r_zz) :
                 r_zz[k] = FullDrift(args.dz_s, GammaOf(args.gamma_in))
          /\ \A k \in 1..Len(gamma_phi) : gamma_phi[k][1] = args.gamma_in
          /\ result.status = "ok" => result.r_zz = r_zz

C2_Witness ==
    /\ args.fn = "z_field_map_leapfrog"
    /\ args.k_e = Zero
    /\ args.gamma_in = GAMMA_cdef
    /\ result.status = "ok"
    /\ Len(result.r_zz) >= 2

\* C3 as stated: interp returns exactly 0 for every z < 0 and for every
\* z >= table_length, table_length = (n_points - 1) / inv_dz, in particular
\* at z = table_length
C3_ZeroFromTableLength ==
    (InterpCalled /\ (FLt(args.z, Zero) \/ FGe(args.z, TableLength)))
    => result = ReturnedOut(Zero)

\* C3 amended: interp returns exactly 0 for every z < 0 and for every
\* z > table_length
C3_ZeroOutsideTable ==
    (InterpCalled /\ (FLt(args.z, Zero) \/ FGt(args.z, TableLength)))
    => result = ReturnedOut(Zero)

C3_Witness ==
    /\ InterpCalled
    /\ args.fn = "interp"
    /\ FLt(args.z, Zero)
    /\ result = ReturnedOut(Zero)

\* C4: sampling the field at the knot z_i = i / inv_dz returns exactly the
\* table value e_z[i], for every index i in 0..n_points-1, the last included
C4_ExactAtKnots ==
    /\ (args.fn = "interp" /\ result # NoResult) =>
          \A k \in 0..(tab.n_points - 1) :
              args.z = FDiv(FromInt(k), tab.inv_dz) => result = ReturnedOut(tab.e_z[k + 1])
    /\ (args.fn = "interp_old" /\ result # NoResult) =>
          \A k \in 1..Len(tab.e_z) :
              args.z = tab.e_z[k][1] => result = ReturnedOut(tab.e_z[k][2])

\* C5: every matrix returned by z_drift has determinant exactly 1, for every
\* length, every entrance gamma or kinetic energy and every step count
C5_DriftDetOne ==
    (args.fn \in {"z_drift", "z_drift_old"} /\ result.status = "ok")
    => \A k \in 1..Len(result.r_zz) : Det(result.r_zz[k]) = One

C5_Witness ==
    /\ args.fn = "z_drift"
    /\ args.gamma_in = Half
    /\ result.status = "ok"
    /\ Len(result.r_zz) >= 2

\* C6: z_drift(delta_s, gamma_in, n_steps) returns n_steps matrices, all equal
\* to [[1, delta_s * gamma_in**-2], [0, 1]], whatever the sub-step
C6_DriftMatricesEqual ==
    /\ (args.fn = "z_drift" /\ result.status = "ok") =>
          /\ Len(result.r_zz) = args.n_steps
          /\ \A k \in 1..Len(result.r_zz) :
                 result.r_zz[k] = FullDrift(args.dz_s, args.gamma_in)
    /\ (args.fn = "z_drift_old" /\ result.status = "ok") =>
          /\ Len(result.r_zz) = args.n_steps
          /\ \A k \in 1..Len(result.r_zz) :
                 result.r_zz[k] = FullDrift(args.dz_s, GammaOf(args.gamma_in))

C6_Witness ==
    /\ args.fn = "z_drift"
    /\ result.status = "ok"
    /\ Len(result.r_zz) = MaxSteps + 2

\* the drift of length 0.5 with gamma = 1.1 and one step
C7_Called ==
    /\ args.fn = "z_drift"
    /\ args.dz_s = Half
    /\ args.gamma_in = Fl(11, 10)
    /\ args.n_steps = 1
    /\ result # NoResult

\* C7 as stated: the matrix of a drift of length 0.5 with gamma = 1.1 and one
\* step is [[1, 0.5 * (1 - 1/1.1^2)], [0, 1]] within floating tolerance
C7_UpperRightOneMinus ==
    C7_Called =>
        /\ result.status = "ok"
        /\ Len(result.r_zz) = 1
        /\ result.r_zz[1][1][1] = One
        /\ Near(result.r_zz[1][1][2],
                FMul(Half, FSub(One, FDiv(One, FMul(Fl(11, 10), Fl(11, 10))))))
        /\ result.r_zz[1][2] = << Zero, One >>

\* C7 amended: the matrix of a drift of length 0.5 with gamma = 1.1 and one
\* step is [[1, 0.5 * (1/1.1^2)], [0, 1]]
C7_UpperRightInverseSquare ==
    C7_Called =>
        /\ result.status = "ok"
        /\ result.r_zz =
              << << << One, FMul(Half, FDiv(One, FMul(Fl(11, 10), Fl(11, 10)))) >>,
                    << Zero, One >> >> >>

C7_Witness == C7_Called /\ result.status = "ok"

\* C8: in the trajectory returned by z_drift the phase of sub-step i (from 0)
\* is (i+1) * delta_phi, delta_phi = OMEGA_0_BUNCH * delta_s / (beta_in * c),
\* and the gamma or energy entry of every sub-step is the entrance value
C8_DriftPhases ==
    /\ (args.fn = "z_drift" /\ result.status = "ok") =>
          LET beta_in == Sqrt(FSub(One, FDiv(One, FMul(args.gamma_in, args.gamma_in))))
              delta_phi == FDiv(FMul(OMEGA_0_BUNCH_cdef, args.dz_s),
                                FMul(beta_in, c_cdef))
          IN  /\ Len(result.gamma_phi) = args.n_steps
              /\ \A k \in 1..Len(result.gamma_phi) :
                     result.gamma_phi[k] = << args.gamma_in, FMul(FromInt(k), delta_phi) >>
    /\ (args.fn = "z_drift_old" /\ result.status = "ok") =>
          LET beta_in == BetaOf(GammaOf(args.gamma_in))
              delta_phi == FDiv(FMul(OMEGA_0_BUNCH_cdef, args.dz_s),
                                FMul(beta_in, c_cdef))
          IN  /\ Len(result.gamma_phi) = args.n_steps
              /\ \A k \in 1..Len(result.gamma_phi) :
                     /\ result.gamma_phi[k][1] = args.gamma_in
                     /\ Near(result.gamma_phi[k][2], FMul(FromInt(k), delta_phi))

C8_Witness ==
    /\ args.fn = "z_drift"
    /\ args.gamma_in = GAMMA_cdef
    /\ result.status = "ok"
    /\ Len(result.gamma_phi) = MaxSteps + 2

\* C9: for n_steps >= 1 a field-map driver returns exactly n_steps matrices
\* and exactly n_steps rows (gamma, phase); row i is the state after step i,
\* the entrance state is not among them
C9_OutputLengths ==
    (args.fn \in Drivers /\ result.status = "ok" /\ args.n_steps >= 1) =>
        /\ Len(result.r_zz) = args.n_steps
        /\ Len(result.gamma_phi) = args.n_steps
        /\ Len(gamma_phi) = args.n_steps + 1
        /\ \A k \in 1..args.n_steps : result.gamma_phi[k] = gamma_phi[k + 1]
        /\ result.gamma_phi[1] # gamma_phi[1]

C9_Witness ==
    /\ args.fn = "z_field_map_rk4"
    /\ result.status = "ok"
    /\ args.n_steps = MaxSteps

\* C10: a field-map driver called with a section_idx that is not the index
\* of a loaded table, a negative one included, signals an error at once and
\* never integrates
C10_BadSectionIsError ==
    /\ (args.fn \in NewDrivers /\ l_d_ez_set
           /\ args.section_idx \notin 0..(Len(l_d_ez) - 1))
          => (pc = "idle" /\ result.status = "error")
    /\ (args.fn = "z_field_map" /\ args.section_idx \notin 0..2)
          => (pc = "idle" /\ result.status = "error")

\* C11: z_drift, z_field_map_rk4 and z_field_map_leapfrog called with a step
\* count n_steps of 0 or less raise an error to the caller at once; they
\* return no result tuple, not even one of empty arrays
C11_NonPositiveStepsRaise ==
    (args.fn \in {"z_drift"} \cup NewDrivers /\ args.n_steps <= 0)
    => (pc = "idle" /\ result.status = "error")

\* C12: with a gamma of 1 or less, where beta is zero or undefined, the call
\* raises an arithmetic error instead of returning: z_drift and the drivers
\* on their entrance gamma, z_thin_lense on its midpoint gamma; no matrix and
\* no state is returned for such a gamma
C12_GammaAtMostOneRaises ==
    /\ (args.fn \in {"z_drift"} \cup NewDrivers /\ FLe(args.gamma_in, One)
           /\ args.n_steps >= 1 /\ result # NoResult)
          => result.status = "error"
    /\ (args.fn \in NewDrivers /\ r_zz # <<>>) => FGt(lens.gamma_m, One)

\* C13: z_drift, z_field_map_rk4 and z_field_map_leapfrog are functions of
\* their arguments alone: a call with the arguments of an earlier call gives
\* the result, or the failure, of that earlier call, whatever happened to the
\* module in between
C13_SameArgsSameResult ==
    (/\ first_call # NoCall
     /\ args = first_call.args
     /\ pc = "idle"
     /\ result # NoResult)
    => result = first_call.result

\* C14: no step of an integration call (a drift, a field-map driver of either
\* module, the thin-lens builder inside it) assigns a module-level variable:
\* the field tables l_d_ez and E_Z_* only change when the caller loads them
C14_CallsLeaveGlobalsAlone ==
    [][(args' # args \/ pc # "idle") => UNCHANGED << l_d_ez_set, l_d_ez, E_Z >>]_vars

\* C16: when floor(z * inv_dz_e) is the last sample index n_points_e - 1,
\* interp returns the last sample e_z[n_points_e - 1]; interp never reads
\* e_z outside the indices 0..n_points_e - 1
C16_LastIndexReadsLastSample ==
    (/\ args.fn = "interp"
     /\ result # NoResult
     /\ ~FLt(args.z, Zero)
     /\ ~FGt(args.z, TableLength)
     /\ Floor(FMul(args.z, tab.inv_dz)) = tab.n_points - 1)
    => result = ReturnedOut(tab.e_z[tab.n_points])

\* C17: in z_field_map_leapfrog the midpoint gamma given to z_thin_lense for
\* step i is the gamma that the step has just computed, gamma_phi[i + 1, 0],
\* not the gamma from before the kick, gamma_phi[i, 0]
C17_MidpointGammaIsUpdated ==
    (args.fn = "z_field_map_leapfrog" /\ r_zz # <<>>)
    => lens.gamma_m = gamma_phi[Len(r_zz) + 1][1]

\* C18: z_field_map_leapfrog rewinds the entrance gamma by half a kick for the
\* very first cavity only: a call for a cavity that follows another one starts
\* its trajectory from gamma_in unchanged, whatever the value of gamma_in
C18_NoRewindAfterFirstCavity ==
    (/\ first_call.args.fn = "z_field_map_leapfrog"
     /\ first_call.result.status = "ok"
     /\ first_call.result.gamma_phi # <<>>
     /\ args.fn = "z_field_map_leapfrog"
     /\ args # first_call.args
     /\ args.gamma_in = ExitGamma(first_call)
     /\ gamma_phi # <<>>)
    => gamma_phi[1][1] = args.gamma_in

\* the derivative of u = <<W_kin, phi>> as C19 describes it for the older
\* module: the phase derivative omega0_rf / (beta * c) with beta taken from
\* the energy u[0] of the state it is evaluated on
StateBeta(u) == BetaOf(GammaOf(u[1]))

\* one RK4 step of the older module with that derivative in its four
\* evaluations
Rk4OfStateBeta(u, x, dx, k_e, e_z_array, phi_0_rel, omega0_rf) ==
    Local([half_dx \in {FMul(Half, dx)} |->
    Local([k_1 \in {du_dz(x, u, k_e, e_z_array, phi_0_rel, omega0_rf, StateBeta(u))} |->
    Local([u_2 \in {Axpy(u, half_dx, k_1)} |->
    Local([k_2 \in {du_dz(FAdd(x, half_dx), u_2, k_e, e_z_array, phi_0_rel, omega0_rf,
                          StateBeta(u_2))} |->
    Local([u_3 \in {Axpy(u, half_dx, k_2)} |->
    Local([k_3 \in {du_dz(FAdd(x, half_dx), u_3, k_e, e_z_array, phi_0_rel, omega0_rf,
                          StateBeta(u_3))} |->
    Local([u_4 \in {Axpy(u, dx, k_3)} |->
    Local([k_4 \in {du_dz(FAdd(x, dx), u_4, k_e, e_z_array, phi_0_rel, omega0_rf,
                          StateBeta(u_4))} |->
        [j \in 1..2 |->
            FDiv(FMul(FAdd(FAdd(FAdd(k_1[j], FMul(Two, k_2[j])), FMul(Two, k_3[j])),
                           k_4[j]), dx),
                 FromInt(6))]])])])])])])])])

\* C19: in each of the four derivative evaluations of an RK4 step the phase
\* derivative is omega0_rf / (beta * c) with beta of the energy of the state
\* the evaluation is made on, not beta at the entrance of the cavity; so the
\* row that a step of z_field_map_rk4 (du) or of the older z_field_map
\* (du_dz) adds to the trajectory is the RK4 step of that derivative
C19_PhaseRateFromStateBeta ==
    /\ (args.fn = "z_field_map_rk4" /\ r_zz # <<>>) =>
          \E oob \in OobOutcomes :
              LET row == gamma_phi[Len(r_zz)]
                  d == rk4(FSub(z_rel, args.dz_s), row, args.dz_s, k_k_of(args), tab.e_z,
                           tab.inv_dz, tab.n_points, args.phi_0_rel,
                           delta_phi_norm_of(args), oob)
              IN  gamma_phi[Len(r_zz) + 1] = << FAdd(row[1], d[1]), FAdd(row[2], d[2]) >>
    /\ (args.fn = "z_field_map" /\ r_zz # <<>>) =>
          LET row == gamma_phi[Len(r_zz)]
              d == Rk4OfStateBeta(row, FSub(z_rel, args.dz_s), args.dz_s, args.k_e,
                                  tab.e_z, args.phi_0_rel, args.omega0_rf)
          IN  gamma_phi[Len(r_zz) + 1] = << FAdd(row[1], d[1]), FAdd(row[2], d[2]) >>

\* the kick matrix [[k_3, 0], [k_1, k_2]] of the new module, from the
\* midpoint gamma and phase and the maximal energy gain at the midpoint
Kick(gamma_m, phi_m, delta_gamma_m_max, phi_0, omega0_rf) ==
    Local([beta_m \in {Sqrt(FSub(One, PowMin2(gamma_m)))} |->
    Local([k_speed1 \in {FDiv(delta_gamma_m_max, FMul(gamma_m, FMul(beta_m, beta_m)))} |->
    Local([k_speed2 \in {FMul(k_speed1, Cos(FAdd(phi_m, phi_0)))} |->
    Local([k_2 \in {FSub(One, FMul(FSub(Two, FMul(beta_m, beta_m)), k_speed2))} |->
        << << FDiv(FSub(One, k_speed2), k_2), Zero >>,
           << FMul(FDiv(FMul(k_speed1, omega0_rf), FMul(beta_m, c_cdef)),
                   Sin(FAdd(phi_m, phi_0))),
              k_2 >> >>])])])])

\* the kick matrix of the older module, from the midpoint gamma and beta, the
\* phase phi_k half a step after phi_rel and the field at z_k
KickOld(d_z, gamma_middle, z_k, phi_rel, omega0_rf, norm, phi_0, e_z_array) ==
    Local([beta_middle \in {BetaOf(gamma_middle)} |->
    Local([factor \in {FDiv(omega0_rf, FMul(beta_middle, c_cdef))} |->
    Local([phi_k \in {FAdd(phi_rel, FDiv(FMul(FMul(Half, d_z), omega0_rf),
                                        FMul(beta_middle, c_cdef)))} |->
    Local([k_0 \in {FDiv(FMul(q_adim_cdef, d_z),
              FMul(FMul(gamma_middle, FMul(beta_middle, beta_middle)), E_rest_MeV_cdef))} |->
    Local([e_func_k \in {e_func_old(norm, z_k, e_z_array, phi_k, phi_0)} |->
    Local([b2 \in {FSub(Two, FMul(beta_middle, beta_middle))} |->
        << << FDiv(FSub(One, FMul(k_0, e_func_k)),
                   FSub(One, FMul(FMul(k_0, b2), e_func_k))),
              Zero >>,
           << FMul(k_0, de_dt_func(norm, z_k, e_z_array, phi_k, phi_0, factor)),
              FSub(One, FMul(FMul(b2, k_0), e_func_k)) >> >>])])])])])])

\* C20: the matrix that z_thin_lense builds for a step is the product
\* D(dz/2, gamma_out) * K * D(dz/2, gamma_in), in this order: the half drift
\* applied first has the gamma at the entrance of the step, the half drift
\* applied last the gamma at its exit, and the kick K = [[k_3, 0], [k_1, k_2]]
\* has the midpoint gamma, beta and phase and the field at z_rel + dz/2; in
\* the new module and in the older one
C20_HalfDriftKickHalfDrift ==
    /\ (args.fn \in NewDrivers /\ r_zz # <<>>) =>
          /\ lens.half_dz_s = FMul(Half, args.dz_s)
          /\ lens.z_m = FAdd(FSub(z_rel, args.dz_s), lens.half_dz_s)
          /\ lens.gamma_in = gamma_phi[Len(r_zz)][1]
          /\ lens.gamma_out = gamma_phi[Len(r_zz) + 1][1]
          /\ \E oob \in OobOutcomes :
                 lens.delta_gamma_m_max =
                     FMul(k_k_of(args),
                          interp(lens.z_m, tab.e_z, tab.inv_dz, tab.n_points, oob))
          /\ r_zz[Len(r_zz)] =
                 MatMul(FullDrift(lens.half_dz_s, lens.gamma_out),
                        MatMul(Kick(lens.gamma_m, lens.phi_m, lens.delta_gamma_m_max,
                                    args.phi_0_rel, args.omega0_rf),
                               FullDrift(lens.half_dz_s, lens.gamma_in)))
    /\ (args.fn = "z_field_map" /\ r_zz # <<>>) =>
          /\ lens.half_dz_s = FMul(Half, args.dz_s)
          /\ lens.z_m = FSub(z_rel, args.dz_s)
          /\ lens.gamma_in = gamma_phi[Len(r_zz)][1]
          /\ lens.gamma_out = gamma_phi[Len(r_zz) + 1][1]
          /\ r_zz[Len(r_zz)] =
                 MatMul(FullDrift(lens.half_dz_s, GammaOf(lens.gamma_out)),
                        MatMul(KickOld(args.dz_s, lens.gamma_m,
                                       FAdd(lens.z_m, lens.half_dz_s), lens.phi_m,
                                       args.omega0_rf, args.k_e, args.phi_0_rel, tab.e_z),
                               FullDrift(lens.half_dz_s, GammaOf(lens.gamma_in))))

C20_Witness ==
    /\ args.fn = "z_field_map_rk4"
    /\ result.status = "ok"
    /\ args.k_e = FromInt(20)
    /\ Len(result.r_zz) = MaxSteps
    /\ lens.gamma_out # lens.gamma_in
    /\ result.r_zz[MaxSteps][2][1] # Zero

\* the term that step k (counted from 0) adds to the integrated field, as
\* <<real part, imaginary part>>: field * (1 + j * tan(phi_k + phi_0)) * dz
\* with the field at z = k * dz and the phase phi_k at the entrance of the step
FieldTerm(k, oob) ==
    Local([phi \in {gamma_phi[k + 1][2]} |->
    Local([z \in {FMul(FromInt(k), args.dz_s)} |->
    Local([e \in {IF args.fn = "z_field_map"
                  THEN e_func_old(args.k_e, z, tab.e_z, phi, args.phi_0_rel)
                  ELSE FMul(args.k_e, e_func(z, tab.e_z, tab.inv_dz, tab.n_points, phi,
                                             args.phi_0_rel, oob))} |->
        << FMul(e, args.dz_s),
           FMul(FMul(e, Tan(FAdd(phi, args.phi_0_rel))), args.dz_s) >>])])])

\* the sums of the terms of steps 0..k-1, starting from 0, for every outcome
\* of the reads beyond the table
FieldSums[k \in 0..(MaxSteps + 1)] ==
    IF k = 0 THEN {<< Zero, Zero >>}
    ELSE {<< FAdd(acc[1], FieldTerm(k - 1, oob)[1]),
             FAdd(acc[2], FieldTerm(k - 1, oob)[2]) >> :
             acc \in FieldSums[k - 1], oob \in OobOutcomes}

\* C21: after n steps of a field-map driver (RK4, leapfrog, or the older one)
\* the integrated field is the sum, from 0, of exactly one term per step:
\* k_e * E_z(i * dz) * cos(phi_i + phi_0) * (1 + j * tan(phi_i + phi_0)) * dz
\* with phi_i the phase at the entrance of step i; that sum is what is returned
C21_IntegratedFieldIsSum ==
    (args.fn \in Drivers /\ gamma_phi # <<>>) =>
        /\ gamma_phi[1][2] = Zero
        /\ itg_field \in FieldSums[Len(r_zz)]
        /\ result.status = "ok" =>
               (Len(r_zz) = args.n_steps /\ result.itg_field = itg_field)

C21_Witness ==
    /\ args.fn = "z_field_map_leapfrog"
    /\ result.status = "ok"
    /\ args.n_steps = MaxSteps
    /\ result.itg_field[1] # Zero
    /\ result.itg_field[2] # Zero
    /\ ~IsNaN(result.itg_field[1])

\* C22: a leapfrog step first computes the kick k_k * E_z(z_i) * cos(phi_i +
\* phi_0) from the phase before the step, adds it to gamma, takes beta of the
\* updated gamma, and advances the phase by delta_phi_norm / beta with that
\* beta, never with the beta of the gamma from before the kick
C22_LeapfrogOrder ==
    (args.fn = "z_field_map_leapfrog" /\ r_zz # <<>>) =>
        \A k \in 1..Len(r_zz) :
            /\ \E oob \in OobOutcomes :
                   gamma_phi[k + 1][1] =
                       FAdd(gamma_phi[k][1],
                            FMul(k_k_of(args),
                                 e_func(FMul(FromInt(k - 1), args.dz_s), tab.e_z,
                                        tab.inv_dz, tab.n_points, gamma_phi[k][2],
                                        args.phi_0_rel, oob)))
            /\ gamma_phi[k + 1][2] =
                   FAdd(gamma_phi[k][2],
                        FDiv(delta_phi_norm_of(args),
                             Sqrt(FSub(One, PowMin2(gamma_phi[k + 1][1])))))

C22_Witness ==
    /\ args.fn = "z_field_map_leapfrog"
    /\ result.status = "ok"
    /\ Len(r_zz) = MaxSteps
    /\ FGt(gamma_phi[MaxSteps][1], One)
    /\ gamma_phi[MaxSteps + 1][1] # gamma_phi[MaxSteps][1]
    /\ Sqrt(FSub(One, PowMin2(gamma_phi[MaxSteps + 1][1])))
           # Sqrt(FSub(One, PowMin2(gamma_phi[MaxSteps][1])))

\* the classic RK4 step on the right-hand side of the new module: the k_i
\* are the derivatives du/dz (du with the coefficients of a unit step), the
\* intermediate states are u + dz/2 * k_i and u + dz * k_3, the result is
\* (k_1 + 2 k_2 + 2 k_3 + k_4) * dz / 6
ClassicRk4(z, u, dz_s, k_e, omega0_rf, e_z, inv_dz_e, n_points_e, phi_0_rel, oob) ==
    Local([half_dz_s \in {FMul(Half, dz_s)} |->
    Local([kd \in {FMul(FMul(q_adim_cdef, inv_E_rest_MeV_cdef), k_e)} |->
    Local([pd \in {FDiv(omega0_rf, c_cdef)} |->
    Local([k_1 \in {du(z, u, kd, e_z, inv_dz_e, n_points_e, phi_0_rel, pd, oob)} |->
    Local([k_2 \in {du(FAdd(z, half_dz_s), Axpy(u, half_dz_s, k_1), kd, e_z, inv_dz_e,
                       n_points_e, phi_0_rel, pd, oob)} |->
    Local([k_3 \in {du(FAdd(z, half_dz_s), Axpy(u, half_dz_s, k_2), kd, e_z, inv_dz_e,
                       n_points_e, phi_0_rel, pd, oob)} |->
    Local([k_4 \in {du(FAdd(z, dz_s), Axpy(u, dz_s, k_3), kd, e_z, inv_dz_e,
                       n_points_e, phi_0_rel, pd, oob)} |->
        [j \in 1..2 |->
            FDiv(FMul(FAdd(FAdd(FAdd(k_1[j], FMul(Two, k_2[j])), FMul(Two, k_3[j])),
                           k_4[j]), dz_s),
                 FromInt(6))]])])])])])])])

\* the pre-scaled RK4 step on the right-hand side of the older module: the
\* k_i are the increments dx * du_dz (du_dz with k_e and omega0_rf times dx),
\* the intermediate states are u + k_i / 2 and u + k_3, the result is
\* (k_1 + 2 k_2 + 2 k_3 + k_4) / 6
PrescaledRk4(u, x, dx, k_e, e_z_array, phi_0_rel, omega0_rf, beta) ==
    Local([half_dx \in {FMul(Half, dx)} |->
    Local([ks \in {FMul(k_e, dx)} |->
    Local([ws \in {FMul(omega0_rf, dx)} |->
    Local([k_1 \in {du_dz(x, u, ks, e_z_array, phi_0_rel, ws, beta)} |->
    Local([k_2 \in {du_dz(FAdd(x, half_dx), Axpy(u, Half, k_1), ks, e_z_array,
                          phi_0_rel, ws, beta)} |->
    Local([k_3 \in {du_dz(FAdd(x, half_dx), Axpy(u, Half, k_2), ks, e_z_array,
                          phi_0_rel, ws, beta)} |->
    Local([k_4 \in {du_dz(FAdd(x, dx), Axpy(u, One, k_3), ks, e_z_array,
                          phi_0_rel, ws, beta)} |->
        [j \in 1..2 |->
            FDiv(FAdd(FAdd(FAdd(k_1[j], FMul(Two, k_2[j])), FMul(Two, k_3[j])), k_4[j]),
                 FromInt(6))]])])])])])])])

\* x and y are the same up to the rounding of a quantity of size scale
Close(x, y, scale) ==
    x = y \/ (IsNum(x) /\ IsNum(y) /\ FLe(FAbs(FSub(x, y)), FMul(Tol, FAbs(scale))))

\* the largest sample of a table of the new module, of the older module
MaxSample(e_z) == CHOOSE m \in {FAbs(e_z[k]) : k \in 1..Len(e_z)} :
                      \A k \in 1..Len(e_z) : FLe(FAbs(e_z[k]), m)
MaxSampleOld(e_z_array) == MaxSample([k \in 1..Len(e_z_array) |-> e_z_array[k][2]])

\* C23: on the same right-hand side and the same step, the classic RK4 (the
\* k_i are derivatives) and the pre-scaled RK4 (the k_i are increments) give
\* the same increment, up to rounding: the pre-scaled rk4 of the new module
\* agrees with the classic scheme on du, the classic rk4 of the older module
\* agrees with the pre-scaled scheme on du_dz; neither mixes the conventions
C23_Rk4FormulationsAgree ==
    /\ (args.fn = "z_field_map_rk4" /\ pc = args.fn /\ r_zz # <<>>) =>
          \A oob \in OobOutcomes :
              LET row == gamma_phi[Len(r_zz)]
                  z == FSub(z_rel, args.dz_s)
                  a == rk4(z, row, args.dz_s, k_k_of(args), tab.e_z, tab.inv_dz,
                           tab.n_points, args.phi_0_rel, delta_phi_norm_of(args), oob)
                  b == ClassicRk4(z, row, args.dz_s, args.k_e, args.omega0_rf, tab.e_z,
                                  tab.inv_dz, tab.n_points, args.phi_0_rel, oob)
              IN  /\ Close(a[1], b[1], FMul(k_k_of(args), MaxSample(tab.e_z)))
                  /\ Close(a[2], b[2], a[2])
    /\ (args.fn = "z_field_map" /\ pc = args.fn /\ r_zz # <<>>) =>
          LET row == gamma_phi[Len(r_zz)]
              x == FSub(z_rel, args.dz_s)
              beta == BetaOf(GammaOf(args.gamma_in))
              a == rk4_old(row, x, args.dz_s, args.k_e, tab.e_z, args.phi_0_rel,
                           args.omega0_rf, beta)
              b == PrescaledRk4(row, x, args.dz_s, args.k_e, tab.e_z, args.phi_0_rel,
                                args.omega0_rf, beta)
          IN  /\ Close(a[1], b[1],
                       FMul(FMul(args.k_e, args.dz_s), MaxSampleOld(tab.e_z)))
              /\ Close(a[2], b[2], a[2])

C23_Witness ==
    /\ args.fn = "z_field_map_rk4"
    /\ args.k_e = FromInt(-40)
    /\ Len(r_zz) = MaxSteps
    /\ pc = "z_field_map_rk4"
    /\ IsNum(gamma_phi[MaxSteps + 1][1])
    /\ gamma_phi[MaxSteps + 1][1] # gamma_phi[MaxSteps][1]

\* C24: in z_field_map_rk4 and z_field_map_leapfrog the running position
\* starts at 0 and advances by dz once per step, after the matrix of the step
\* is built: with i steps done it is i * dz, and the thin lens of step i had
\* its field sampled at i * dz + dz / 2
C24_PositionAdvancesAfterStep ==
    (args.fn \in NewDrivers /\ gamma_phi # <<>>) =>
        /\ i = Len(r_zz)
        /\ z_rel = FMul(FromInt(i), args.dz_s)
        /\ r_zz # <<>> =>
              /\ lens.z_m = FAdd(FMul(FromInt(i - 1), args.dz_s), FMul(Half, args.dz_s))
              /\ \E oob \in OobOutcomes :
                     lens.delta_gamma_m_max =
                         FMul(k_k_of(args),
                              interp(FAdd(FMul(FromInt(i - 1), args.dz_s),
                                          FMul(Half, args.dz_s)),
                                     tab.e_z, tab.inv_dz, tab.n_points, oob))

C24_Witness ==
    /\ args.fn = "z_field_map_rk4"
    /\ args.k_e = FromInt(20)
    /\ i = MaxSteps
    /\ z_rel = FMul(FromInt(MaxSteps), args.dz_s)
    /\ lens.delta_gamma_m_max # Zero
    /\ result.status = "ok"

\* -------------------------------------------------------------------------
\* A caller that also hands init_arrays files with too few sample lines
\* -------------------------------------------------------------------------
NextMalformed ==
    \/ \E l \in MalformedFilepathLists : \E unset \in Uninitialised : init_arrays(l, unset)
    \/ Next

SpecMalformed == Init /\ [][NextMalformed]_vars

\* the number of sample lines of a file is the count its header announces
WellFormed(file) == Len(file.samples) = file.n + 1

\* C25: init_arrays stores no table of a file whose number of sample lines
\* differs from the announced count (header value + 1): every table of the
\* table list holds the samples of a well-formed file, one per entry
C25_MalformedFileRejected ==
    \A k \in 1..Len(l_d_ez) :
        \E file \in {File1, File2, File3} :
            /\ WellFormed(file)
            /\ l_d_ez[k].n_points = Len(file.samples)
            /\ l_d_ez[k].e_z = file.samples

\* C26: a step of z_field_map_rk4 leaves the trajectory rows written so far
\* as they were, the entrance row of the step included, and writes one new
\* row: the entrance row plus the increment rk4 returns for it
C26_IncrementAppliedOnce ==
    [][(args.fn = "z_field_map_rk4" /\ args' = args /\ i' = i + 1) =>
          /\ Len(gamma_phi') = Len(gamma_phi) + 1
          /\ \A k \in 1..Len(gamma_phi) : gamma_phi'[k] = gamma_phi[k]
          /\ \E oob \in OobOutcomes :
                 LET u == gamma_phi[i + 1]
                     delta_u == rk4(z_rel, u, args.dz_s, k_k_of(args), tab.e_z, tab.inv_dz,
                                    tab.n_points, args.phi_0_rel, delta_phi_norm_of(args),
                                    oob)
                 IN  gamma_phi'[i + 2] =
                         << FAdd(u[1], delta_u[1]), FAdd(u[2], delta_u[2]) >>]_vars

C26_Witness ==
    /\ args.fn = "z_field_map_rk4"
    /\ result.status = "ok"
    /\ Len(gamma_phi) = MaxSteps + 1
    /\ \A k \in 1..MaxSteps : gamma_phi[k + 1][1] # gamma_phi[k][1]

\* k_speed2 of z_thin_lense: the field term
\* delta_gamma_m_max * cos(phi_m + phi_0) / (gamma_m * beta_m**2)
KSpeed2(gamma_m, phi_m, delta_gamma_m_max, phi_0) ==
    Local([beta_m \in {Sqrt(FSub(One, PowMin2(gamma_m)))} |->
        FMul(FDiv(delta_gamma_m_max, FMul(gamma_m, FMul(beta_m, beta_m))),
             Cos(FAdd(phi_m, phi_0)))])

\* k_0 * e_func_k of the older z_thin_lense
K0EFuncOld(d_z, gamma_middle, z_k, phi_rel, omega0_rf, norm, phi_0, e_z_array) ==
    Local([beta_middle \in {BetaOf(gamma_middle)} |->
    Local([phi_k \in {FAdd(phi_rel, FDiv(FMul(FMul(Half, d_z), omega0_rf),
                                        FMul(beta_middle, c_cdef)))} |->
    Local([k_0 \in {FDiv(FMul(q_adim_cdef, d_z),
              FMul(FMul(gamma_middle, FMul(beta_middle, beta_middle)), E_rest_MeV_cdef))} |->
        FMul(k_0, e_func_old(norm, z_k, e_z_array, phi_k, phi_0))])])])

\* the field term of the thin lens of the last step
LastFieldTerm ==
    IF args.fn = "z_field_map"
    THEN K0EFuncOld(args.dz_s, lens.gamma_m, FAdd(lens.z_m, lens.half_dz_s), lens.phi_m,
                    args.omega0_rf, args.k_e, args.phi_0_rel, tab.e_z)
    ELSE KSpeed2(lens.gamma_m, lens.phi_m, lens.delta_gamma_m_max, args.phi_0_rel)

\* the size of the two products whose difference is the determinant
DetScale(m) == FAdd(FAbs(FMul(m[1][1], m[2][2])), FAbs(FMul(m[1][2], m[2][1])))

C28_MidpointGammaIsStepMean ==
    /\ (args.fn = "z_field_map_rk4" /\ r_zz # <<>>) =>
          /\ lens.gamma_in = gamma_phi[Len(r_zz)][1]
          /\ lens.gamma_out = gamma_phi[Len(r_zz) + 1][1]
          /\ lens.gamma_m = FMul(Half, FAdd(lens.gamma_in, lens.gamma_out))
    /\ (args.fn = "z_field_map" /\ r_zz # <<>>) =>
          /\ lens.gamma_in = gamma_phi[Len(r_zz)][1]
          /\ lens.gamma_out = gamma_phi[Len(r_zz) + 1][1]
          /\ lens.gamma_m =
                 FMul(Half, FAdd(GammaOf(lens.gamma_in), GammaOf(lens.gamma_out)))

\* C29: with dz > 0, omega > 0 and gamma > 1 at every step, the phases of
\* the trajectory that z_drift, z_field_map_rk4 and z_field_map_leapfrog
\* return increase strictly from row to row, and the first one is above the
\* initial phase 0
C29_PhaseStrictlyIncreasing ==
    (/\ args.fn \in NewDrivers \cup {"z_drift"}
     /\ result.status = "ok"
     /\ FGt(args.dz_s, Zero)
     /\ args.fn \in NewDrivers => FGt(args.omega0_rf, Zero)
     /\ FGt(args.gamma_in, One)
     /\ \A k \in 1..Len(gamma_phi) : FGt(gamma_phi[k][1], One)
     /\ \A k \in 1..Len(result.gamma_phi) : FGt(result.gamma_phi[k][1], One))
    => \A k \in 1..Len(result.gamma_phi) :
           FGt(result.gamma_phi[k][2],
               IF k = 1 THEN Zero ELSE result.gamma_phi[k - 1][2])

\* -------------------------------------------------------------------------
\* A caller that samples a table of five intervals over 0.85, also next to
\* its end
\* -------------------------------------------------------------------------
File4 == [n |-> 5, length |-> Fl(17, 20), samples |-> <<FromInt(1), FromInt(2), FromInt(-1), FromInt(3), Zero, FromInt(2)>>]

\* the largest number below x
Below(x) == Local([k \in {Prec - BitLen(Abs(x[1]))} |-> Norm(x[1] * 2 ^ k - 1, x[2] - k)])

FinePositions == {Fl(k, 32) : k \in -1..60} \cup {Below(Fl(17, 20))}

NextInterp ==
    \/ \E l \in {<<File4>>, <<File1, File4>>} : \E unset \in Uninitialised : init_arrays(l, unset)
    \/ \E z \in FinePositions, s \in 0..1, oob \in OobOutcomes : CallInterp(z, s, oob)
    \/ Collect

SpecInterp == Init /\ [][NextInterp]_vars

\* C30: on a uniformly spaced table, at every position other than the table
\* length itself, interp of transfer_matrices_c.pyx returns what np.interp
\* with left = 0 and right = 0 returns on the same positions and samples:
\* the same interpolated value (within rounding) inside the table, and
\* exactly 0 below 0 and above the table length
C30_InterpAgreesWithNpInterp ==
    (args.fn = "interp" /\ result # NoResult /\ args.z # TableLength) =>
        LET reference == np_interp(args.z,
                                   ColumnStack(TableLength, tab.n_points - 1, tab.e_z))
        IN  /\ result.status = "ok"
            /\ Close(result.out, reference, MaxSample(tab.e_z))
            /\ (FLt(args.z, Zero) \/ FGt(args.z, TableLength)) =>
                   (result.out = Zero /\ reference = Zero)

====
